---- MODULE Spec2Model ----
\* aiotg: the update classification and handler-dispatch engine of Bot
\* (src/aiotg/bot.py), with Chat (src/aiotg/chat.py).
\*
\* A handler is an opaque callable: it is named by an identifier, and what one
\* invocation of a user handler does (return None, return a coroutine, return
\* some other truthy value, raise) is an input of the dispatch.  The built-in
\* handlers of Bot.__init__ are lambdas that return None.
\*
\* Every dispatch leaves a record of itself in the variables op, calls,
\* scheduled, raised and errors, so that what the code did with an input can
\* be stated as a predicate of the state after the dispatch.  The record is
\* dropped (Return) when the call has returned to its caller, and the next
\* operation starts from there.
EXTENDS Integers, Sequences, FiniteSets, TLC

\* ------------------------------------------------------------------ bounds

\* update_id ranges over 1..MaxId
MaxId == 2
\* a getUpdates batch holds at most MaxBatch updates
MaxBatch == 2
\* a pattern table holds at most MaxTable entries
MaxTable == 2
\* an update of the classification specification carries at most MaxKeys
\* top-level category keys
MaxKeys == 2

\* the number of retried requests followed within one API call
MaxRetries == 2

\* ------------------------------------------------------- program constants

MESSAGE_TYPES == << "location", "photo", "document", "audio", "voice", "sticker", "contact", "venue", "video", "game", "delete_chat_photo", "new_chat_photo", "delete_chat_photo", "new_chat_member", "left_chat_member", "new_chat_title", "group_chat_created", "successful_payment" >>

\* (mutant) the list without successful_payment
MESSAGE_UPDATES_four == << "message", "edited_message", "channel_post", "edited_channel_post" >>

MESSAGE_UPDATES == << "message", "edited_message", "channel_post", "edited_channel_post", "successful_payment" >>

\* the keys _process_update tests after MESSAGE_UPDATES, in the order of its
\* if / elif chain
QUERY_UPDATES == << "inline_query", "callback_query", "pre_checkout_query", "chosen_inline_result" >>

\* ------------------------------------------------------------ handler ids

\* no_handle(mt): the logging no-op Bot.__init__ puts in every _handlers slot
NoHandle == "no_handle"
\* the lambdas Bot.__init__ puts in the default slots; they return None
Lambda == "lambda"
\* an attribute __init__ never assigned: reading it raises AttributeError
Unset == "UNSET"
\* handlers the application registers
UserHandlers == {"h1", "h2"}

\* what one invocation of a user handler does
Behaviours == {"none", "coro", "value", "raise"}

\* the outcome of calling handler h, when a user handler would behave as b
Behaviour(h, b) == IF h \in UserHandlers THEN b ELSE "none"

\* ------------------------------------------------------------ helpers

Max(a, b) == IF a >= b THEN a ELSE b

Range(s) == {s[i] : i \in 1..Len(s)}

\* the least index of a set of indices, 0 when the set is empty: the place at
\* which a Python for loop over a list returns
FirstIn(S) == IF S = {} THEN 0 ELSE CHOOSE i \in S : \A j \in S : i <= j

\* A Python dict, kept in insertion order: a sequence of <<key, value>>.
DictHas(d, k) == \E i \in 1..Len(d) : d[i][1] = k

DictGet(d, k) == d[CHOOSE i \in 1..Len(d) : d[i][1] = k][2]

\* d[k] = v: an existing key keeps its place, a new key goes last
DictSet(d, k, v) == IF DictHas(d, k) THEN [i \in 1..Len(d) |-> IF d[i][1] = k THEN <<k, v>> ELSE d[i]] ELSE Append(d, <<k, v>>)

RECURSIVE DictFromKeys(_, _)
\* {k: v for k in keys}
DictFromKeys(keys, v) == IF keys = <<>> THEN <<>> ELSE DictSet(DictFromKeys(SubSeq(keys, 1, Len(keys) - 1), v), keys[Len(keys)], v)

\* ------------------------------------------------------------ re.search

\* A text is a tuple of one-character strings.  A pattern is a literal
\* followed by nothing, by the group (.+) or by .* ; this covers the patterns
\* of the documentation ("/echo (.+)", "/e.*").
LowerOf == [c \in {"E", "F", "O", "X"} |-> CASE c = "E" -> "e" [] c = "F" -> "f" [] c = "O" -> "o" [] c = "X" -> "x"]

Lower(c) == IF c \in DOMAIN LowerOf THEN LowerOf[c] ELSE c

Pattern(lit, tail) == [lit |-> lit, tail |-> tail]

NoMatch == [matched |-> FALSE, start |-> 0, end |-> 0, groups |-> <<>>]

\* (mutant) the pattern is matched without re.I
MatchesAt_case_sensitive(p, text, i) == i + Len(p.lit) - 1 <= Len(text) /\ (\A j \in 1..Len(p.lit) : text[i + j - 1] = p.lit[j]) /\ (p.tail = "(.+)" => i + Len(p.lit) <= Len(text))

\* the pattern matches the text from (1-based) position i on, ignoring case
MatchesAt(p, text, i) == /\ i + Len(p.lit) - 1 <= Len(text)
                         /\ \A j \in 1..Len(p.lit) : Lower(text[i + j - 1]) = Lower(p.lit[j])
                         /\ p.tail = "(.+)" => i + Len(p.lit) <= Len(text)

\* re.search(p, text, re.I): the leftmost match, with its span and groups
re_search(p, text) == LET i == FirstIn({k \in 1..(Len(text) + 1) : MatchesAt(p, text, k)}) IN IF i = 0 THEN NoMatch ELSE [matched |-> TRUE, start |-> i - 1, end |-> IF p.tail = "" THEN i - 1 + Len(p.lit) ELSE Len(text), groups |-> IF p.tail = "(.+)" THEN <<SubSeq(text, i + Len(p.lit), Len(text))>> ELSE <<>>]

\* ------------------------------------------------------------ state

\* Bot's fields (src/aiotg/bot.py, Bot.__init__), and the record of the last
\* operation:
\*   op         the operation and its input: [name, ok, updates, pre], pre the
\*              value of _offset before it; for a registration, updates
\*              holds the one record [key, fn] of what was registered
\*   calls      the handler invocations it made, in order
\*   scheduled  the invocations whose returned coroutine went to ensure_future
\*   raised     the exception that left it, "none" when it returned
\*   errors     the number of logger.error diagnostics it wrote
\*   dispatched the number of updates it passed to _process_update
\* and the polling driver:
\*   _running   Bot._running
\*   pc         where loop() is: "new" (not called yet), "scheduled" (a task
\*              was made of it, which has not run), "await" (a getUpdates
\*              call is awaited), "done" (it returned), "failed" (an
\*              exception left it), "cancelled" (its task was cancelled)
\*   poll       the offset parameter of the last getUpdates call and of the
\*              one before (0: none)
\*   tasks      the coroutines given to ensure_future whose body has not run
\*   ext        what an ExtendedBot with the same tables and slots did with the
\*              update of the last comparison: its invocations, scheduled
\*              coroutines, escaping exception and offset
\* and of one call of Bot.api_call:
\*   rpc        its method and parameters, every request posted for it, the
\*              statuses answered so far, the seconds slept, where
\*              _api_call is ("idle", "posted", "sleeping", "returned",
\*              "raised") and the status the raised BotApiError carries
VARIABLES _offset, default_in_groups, _handlers, _commands, _callbacks, _inlines, _chosen_inline_result_callbacks, _checkouts, _default, _default_callback, _default_inline, _default_chosen_inline_result_callback, _default_checkout, op, calls, scheduled, raised, errors, dispatched, _running, pc, poll, tasks, rpc, _webhook_uuid, web, _cleanups, run, ext

regs == <<default_in_groups, _handlers, _commands, _callbacks, _inlines, _chosen_inline_result_callbacks, _checkouts, _default, _default_callback, _default_inline, _default_chosen_inline_result_callback, _default_checkout>>

\* the polling driver: the flag loop() and stop() share, the position of
\* loop(), the getUpdates call it made last, and the handler tasks that were
\* scheduled and have not run yet, oldest first
loopvars == <<_running, pc, poll, tasks>>

\* what lies beside dispatch and polling: the API call in progress
\* the webhook side: the token incoming requests are checked against, and
\* the header and the answer of the last request webhook_handle took
webvars == <<_webhook_uuid, web>>

\* Bot.run: the registered cleanup actions, and where run() is ("new",
\* "running", "ended"), how it ended and what its finally block did, in
\* order
runvars == <<_cleanups, run>>

auxvars == <<rpc, webvars, runvars, ext>>

\* everything but auxvars
botvars == <<_offset, regs, op, calls, scheduled, raised, errors, dispatched, loopvars>>

vars == <<botvars, auxvars>>

\* ------------------------------------------------------------ contexts

\* an argument of a handler call, tagged with its kind
Arg(tag, val) == [tag |-> tag, val |-> val]

\* Chat.from_message(bot, message)
from_message(message) == [id |-> message["chat"]["id"], type |-> message["chat"]["type"], message |-> message]

\* Chat.is_group
is_group(chat) == chat.type = "group" \/ chat.type = "supergroup"

InlineQuery(src) == [sender |-> src["from"], query_id |-> src["id"], query |-> src["query"]]

ChosenInlineResult(src) == [sender |-> src["from"], result_id |-> src["result_id"], query |-> src["query"]]

CallbackQuery(src) == [query_id |-> src["id"], data |-> src["data"], src |-> src]

PreCheckoutQuery(src) == [sender |-> src["from"], query_id |-> src["id"], currency |-> src["currency"], total_amount |-> src["total_amount"], invoice_payload |-> src["invoice_payload"]]

\* ------------------------------------------------------------ routing

\* The result of routing one payload: the invocations made (none or one), what
\* the handler returned ("none": None or another falsy value, "coro": a
\* coroutine or future, "value": a truthy value that is not awaitable) and the
\* exception that escaped ("none" when there is none).
NoCall == [calls |-> <<>>, ret |-> "none", exc |-> "none"]

\* h(*args): reading a slot that was never assigned raises AttributeError
\* before anything is called; a handler that raises lets its exception out.
Invoke(via, h, args, b) == IF h = Unset THEN [calls |-> <<>>, ret |-> "none", exc |-> "AttributeError"] ELSE LET r == Behaviour(h, b) IN [calls |-> << [via |-> via, h |-> h, args |-> args, result |-> r] >>, ret |-> IF r \in {"coro", "value"} THEN r ELSE "none", exc |-> IF r = "raise" THEN "HandlerError" ELSE "none"]

\* (mutant) a message with a text is not looked up by subtype
subtype_index_text_first(message) == IF "text" \in DOMAIN message THEN 0 ELSE FirstIn({i \in 1..Len(_handlers) : _handlers[i][1] \in DOMAIN message})

\* the index in _handlers of the first message type that is a key of the
\* message, 0 when there is none (for mt, func in self._handlers.items())
subtype_index(message) == FirstIn({i \in 1..Len(_handlers) : _handlers[i][1] \in DOMAIN message})

\* (mutant) the last pattern of the table that matches the subject is taken
match_index_last(table, subject) == LET S == {i \in 1..Len(table) : re_search(table[i][1], subject).matched} IN IF S = {} THEN 0 ELSE CHOOSE i \in S : \A j \in S : i >= j

\* the index of the first pattern of a table that matches the subject
match_index(table, subject) == FirstIn({i \in 1..Len(table) : re_search(table[i][1], subject).matched})

\* (mutant) only the type group counts as a group
default_allowed_not_supergroup(chat) == chat.type # "group" \/ default_in_groups

\* the condition under which _process_message runs the default handler
default_allowed(chat) == ~is_group(chat) \/ default_in_groups

\* (mutant) a message without a text goes to the default handler
_process_message_default_without_text(message, b) == LET chat == from_message(message) st == subtype_index(message) IN IF st # 0 THEN Invoke("handle", _handlers[st][2], << Arg("chat", chat), Arg("media", message[_handlers[st][1]]) >>, b) ELSE LET c == IF "text" \in DOMAIN message THEN match_index(_commands, message["text"]) ELSE 0 IN IF c # 0 THEN Invoke("command", _commands[c][2], << Arg("chat", chat), Arg("match", re_search(_commands[c][1], message["text"])) >>, b) ELSE IF default_allowed(chat) THEN Invoke("default", _default, << Arg("chat", chat), Arg("message", message) >>, b) ELSE NoCall

\* Bot._process_message
_process_message(message, b) == LET chat == from_message(message) st == subtype_index(message) IN IF st # 0 THEN Invoke("handle", _handlers[st][2], << Arg("chat", chat), Arg("media", message[_handlers[st][1]]) >>, b) ELSE IF "text" \notin DOMAIN message THEN NoCall ELSE LET c == match_index(_commands, message["text"]) IN IF c # 0 THEN Invoke("command", _commands[c][2], << Arg("chat", chat), Arg("match", re_search(_commands[c][1], message["text"])) >>, b) ELSE IF default_allowed(chat) THEN Invoke("default", _default, << Arg("chat", chat), Arg("message", message) >>, b) ELSE NoCall

\* Bot._process_inline_query
_process_inline_query(query, b) == LET iq == InlineQuery(query) i == match_index(_inlines, query["query"]) IN IF i # 0 THEN Invoke("inline", _inlines[i][2], << Arg("iq", iq), Arg("match", re_search(_inlines[i][1], query["query"])) >>, b) ELSE Invoke("default_inline", _default_inline, << Arg("iq", iq) >>, b)

\* (mutant) chosen inline results are matched against the inline table
_process_chosen_inline_result_inline_table(result, b) == LET cir == ChosenInlineResult(result) i == match_index(_inlines, result["query"]) IN IF i # 0 THEN Invoke("chosen_inline_result", _inlines[i][2], << Arg("cir", cir), Arg("match", re_search(_inlines[i][1], result["query"])) >>, b) ELSE Invoke("default_chosen_inline_result", _default_chosen_inline_result_callback, << Arg("cir", cir) >>, b)

\* Bot._process_chosen_inline_result
_process_chosen_inline_result(result, b) == LET cir == ChosenInlineResult(result) i == match_index(_chosen_inline_result_callbacks, result["query"]) IN IF i # 0 THEN Invoke("chosen_inline_result", _chosen_inline_result_callbacks[i][2], << Arg("cir", cir), Arg("match", re_search(_chosen_inline_result_callbacks[i][1], result["query"])) >>, b) ELSE Invoke("default_chosen_inline_result", _default_chosen_inline_result_callback, << Arg("cir", cir) >>, b)

\* the chat argument of a callback handler: a Chat when the query embeds its
\* originating message, None otherwise
callback_chat(query) == IF "message" \in DOMAIN query THEN Arg("chat", from_message(query["message"])) ELSE Arg("none", "None")

\* (mutant) a query without an originating message counts as no group
callback_default_allowed_without_chat(query) == "message" \notin DOMAIN query \/ ~is_group(from_message(query["message"])) \/ default_in_groups

\* if chat and not chat.is_group() or self.default_in_groups
callback_default_allowed(query) == ("message" \in DOMAIN query /\ ~is_group(from_message(query["message"]))) \/ default_in_groups

\* (mutant) the group rule of the default is applied to pattern handlers too
_process_callback_query_suppressed_in_groups(query, b) == LET chat == callback_chat(query) cq == CallbackQuery(query) i == match_index(_callbacks, cq.data) IN IF ~callback_default_allowed(query) THEN NoCall ELSE IF i # 0 THEN Invoke("callback", _callbacks[i][2], << chat, Arg("cq", cq), Arg("match", re_search(_callbacks[i][1], cq.data)) >>, b) ELSE Invoke("default_callback", _default_callback, << chat, Arg("cq", cq) >>, b)

\* Bot._process_callback_query
_process_callback_query(query, b) == LET chat == callback_chat(query) cq == CallbackQuery(query) i == match_index(_callbacks, cq.data) IN IF i # 0 THEN Invoke("callback", _callbacks[i][2], << chat, Arg("cq", cq), Arg("match", re_search(_callbacks[i][1], cq.data)) >>, b) ELSE IF callback_default_allowed(query) THEN Invoke("default_callback", _default_callback, << chat, Arg("cq", cq) >>, b) ELSE NoCall

\* Bot._process_pre_checkout_query
_process_pre_checkout_query(query, b) == LET pcq == PreCheckoutQuery(query) i == match_index(_checkouts, pcq.invoice_payload) IN IF i # 0 THEN Invoke("checkout", _checkouts[i][2], << Arg("pcq", pcq), Arg("match", re_search(_checkouts[i][1], pcq.invoice_payload)) >>, b) ELSE Invoke("default_checkout", _default_checkout, << Arg("pcq", pcq) >>, b)

\* ------------------------------------------------------------ dispatch

\* (mutant) the offset is assigned the update's id
next_offset_assign(off, update) == update["update_id"]

\* self._offset = max(self._offset, update["update_id"])
next_offset(off, update) == Max(off, update["update_id"])

\* (mutant) the last update type present is taken, not the first
message_update_index_last(update) == LET S == {i \in 1..Len(MESSAGE_UPDATES) : MESSAGE_UPDATES[i] \in DOMAIN update} IN IF S = {} THEN 0 ELSE CHOOSE i \in S : \A j \in S : i >= j

\* the index in MESSAGE_UPDATES of the first update type that is a key of the
\* update, 0 when there is none (for ut in MESSAGE_UPDATES)
message_update_index(update) == FirstIn({i \in 1..Len(MESSAGE_UPDATES) : MESSAGE_UPDATES[i] \in DOMAIN update})

\* the else branch of the for loop of _process_update: the if / elif chain
\* over the query keys
query_update_index(update) == FirstIn({i \in 1..Len(QUERY_UPDATES) : QUERY_UPDATES[i] \in DOMAIN update})

\* (mutant) the query keys are tested before the message update keys
category_query_first(update) == IF query_update_index(update) # 0 THEN QUERY_UPDATES[query_update_index(update)] ELSE IF message_update_index(update) # 0 THEN MESSAGE_UPDATES[message_update_index(update)] ELSE "unknown"

\* the category under which _process_update routes the update: the message
\* update key, the query key, or "unknown"
category(update) == IF message_update_index(update) # 0 THEN MESSAGE_UPDATES[message_update_index(update)] ELSE IF query_update_index(update) # 0 THEN QUERY_UPDATES[query_update_index(update)] ELSE "unknown"

\* coro = self._process_...(update[key])
route(update, b) == LET c == category(update) IN IF c \in Range(MESSAGE_UPDATES) THEN _process_message(update[c], b) ELSE IF c = "inline_query" THEN _process_inline_query(update[c], b) ELSE IF c = "callback_query" THEN _process_callback_query(update[c], b) ELSE IF c = "pre_checkout_query" THEN _process_pre_checkout_query(update[c], b) ELSE IF c = "chosen_inline_result" THEN _process_chosen_inline_result(update[c], b) ELSE NoCall

\* if coro: asyncio.ensure_future(coro).  ensure_future raises TypeError for a
\* value that is no coroutine, future or awaitable.
ensure(r) == IF r.exc # "none" THEN [scheduled |-> <<>>, exc |-> r.exc] ELSE IF r.ret = "coro" THEN [scheduled |-> r.calls, exc |-> "none"] ELSE IF r.ret = "value" THEN [scheduled |-> <<>>, exc |-> "TypeError"] ELSE [scheduled |-> <<>>, exc |-> "none"]

\* the invocations made while update is processed, each with the value
\* self._offset has when the handler is called, the update_id of the update
\* and the turn of the batch loop it is made in (1 outside a batch)
invoked(cs, at, update) == [i \in 1..Len(cs) |-> [via |-> cs[i].via, h |-> cs[i].h, args |-> cs[i].args, result |-> cs[i].result, at |-> at, uid |-> update["update_id"], turn |-> 1]]

\* the same invocations, made in the turn n of the batch loop
in_turn(cs, n) == [i \in 1..Len(cs) |-> [cs[i] EXCEPT !.turn = n]]

\* (mutant) the offset is advanced only for an update that was classified
_process_update_classified_only(off, update, b) == LET r == route(update, b) e == ensure(r) IN [offset |-> IF category(update) = "unknown" THEN off ELSE next_offset(off, update), calls |-> invoked(r.calls, next_offset(off, update), update), scheduled |-> invoked(e.scheduled, next_offset(off, update), update), raised |-> e.exc, errors |-> IF category(update) = "unknown" THEN 1 ELSE 0, done |-> 1]

\* (mutant) an update whose id is not above the offset is skipped as seen
_process_update_skip_seen(off, update, b) == LET r == route(update, b) e == ensure(r) IN IF update["update_id"] <= off THEN [offset |-> off, calls |-> <<>>, scheduled |-> <<>>, raised |-> "none", errors |-> 0, done |-> 1] ELSE [offset |-> next_offset(off, update), calls |-> invoked(r.calls, next_offset(off, update), update), scheduled |-> invoked(e.scheduled, next_offset(off, update), update), raised |-> e.exc, errors |-> IF category(update) = "unknown" THEN 1 ELSE 0, done |-> 1]

\* (mutant) the offset is assigned after the routing, so a handler is called
\* under the old offset and its exception leaves the offset as it was
_process_update_offset_last(off, update, b) == LET r == route(update, b) e == ensure(r) IN [offset |-> IF r.exc # "none" THEN off ELSE next_offset(off, update), calls |-> invoked(r.calls, off, update), scheduled |-> invoked(e.scheduled, off, update), raised |-> e.exc, errors |-> IF category(update) = "unknown" THEN 1 ELSE 0, done |-> 1]

\* Bot._process_update, from the offset off: the offset it leaves, the
\* invocations, the scheduled coroutines, the escaping exception, the number
\* of error diagnostics, the number of updates taken (one); the assignment
\* to self._offset is its first statement, the routing follows
_process_update(off, update, b) == LET at == next_offset(off, update) r == route(update, b) e == ensure(r) IN [offset |-> at, calls |-> invoked(r.calls, at, update), scheduled |-> invoked(e.scheduled, at, update), raised |-> e.exc, errors |-> IF category(update) = "unknown" THEN 1 ELSE 0, done |-> 1]

\* the state of a batch before its first update
batch_start(off) == [offset |-> off, calls |-> <<>>, scheduled |-> <<>>, raised |-> "none", errors |-> 0, done |-> 0]

\* one turn of for update in updates["result"]: an exception that left an
\* earlier turn has ended the loop
batch_step(acc, update, b) == IF acc.raised # "none" THEN acc ELSE LET r == _process_update(acc.offset, update, b) IN [offset |-> r.offset, calls |-> acc.calls \o in_turn(r.calls, acc.done + 1), scheduled |-> acc.scheduled \o in_turn(r.scheduled, acc.done + 1), raised |-> r.raised, errors |-> acc.errors + r.errors, done |-> acc.done + 1]

RECURSIVE batch_loop(_, _, _, _)
\* the first n turns of the loop over result, from the offset off; bs[i] is
\* what a user handler invoked for result[i] does
batch_loop(off, result, bs, n) == IF n = 0 THEN batch_start(off) ELSE LET acc == batch_loop(off, result, bs, n - 1) IN batch_step(acc, result[n], bs[n])

\* (mutant) a response whose ok is false raises instead of being dropped
_process_updates_not_ok_raises(off, updates, bs) == IF ~updates.ok THEN [offset |-> off, calls |-> <<>>, scheduled |-> <<>>, raised |-> "BotApiError", errors |-> 1, done |-> 0] ELSE batch_loop(off, updates.result, bs, Len(updates.result))

\* Bot._process_updates: a response whose ok is false is logged and dropped,
\* an ok response is dispatched update by update
_process_updates(off, updates, bs) == IF ~updates.ok THEN [offset |-> off, calls |-> <<>>, scheduled |-> <<>>, raised |-> "none", errors |-> 1, done |-> 0] ELSE batch_loop(off, updates.result, bs, Len(updates.result))

\* ------------------------------------------------------------ inputs

T_foo == << "f", "o", "o" >>

T_cmd == << "/", "E", " ", "x" >>

T_e == << "/", "e" >>

\* "/e (.+)"
P_echo == Pattern(<< "/", "e", " " >>, "(.+)")

\* "/e.*"
P_e == Pattern(<< "/", "e" >>, ".*")

Patterns == {P_echo, P_e}

ChatTypes == {"private", "group", "supergroup", "channel"}

\* A message: message_id, from, chat, the text when texts is << text >>, and
\* one key for every name of subs, whose value stands for the media.
Msg(ctype, texts, subs) == [k \in {"message_id", "from", "chat"} \cup (IF texts = <<>> THEN {} ELSE {"text"}) \cup subs |-> CASE k = "message_id" -> 0 [] k = "from" -> [first_name |-> "John"] [] k = "chat" -> [id |-> 0, type |-> ctype] [] k = "text" -> texts[1] [] OTHER -> << "media", k >>]

\* the payloads of the query updates
InlineQuerySrc(text) == [k \in {"from", "id", "offset", "query"} |-> CASE k = "from" -> [first_name |-> "John"] [] k = "query" -> text [] OTHER -> "9999"]

ChosenInlineResultSrc(text) == [k \in {"from", "result_id", "query"} |-> CASE k = "from" -> [first_name |-> "John"] [] k = "query" -> text [] OTHER -> "9999"]

\* msgs is << message >> when the query embeds its originating message
CallbackQuerySrc(data, msgs) == [k \in {"from", "id", "data"} \cup (IF msgs = <<>> THEN {} ELSE {"message"}) |-> CASE k = "from" -> [first_name |-> "John"] [] k = "data" -> data [] k = "message" -> msgs[1] [] OTHER -> "9999"]

PreCheckoutQuerySrc(payload) == [k \in {"from", "id", "currency", "total_amount", "invoice_payload"} |-> CASE k = "from" -> [first_name |-> "John"] [] k = "invoice_payload" -> payload [] k = "total_amount" -> 100 [] OTHER -> "9999"]

\* an update: update_id and, for every key of keys, the payload of that key
Update(id, keys, payload) == [k \in keys \cup {"update_id"} |-> IF k = "update_id" THEN id ELSE payload[k]]

UpdateIds == 1..MaxId

\* the top-level keys an input update may carry
TopKeys == {"message", "edited_message", "channel_post", "edited_channel_post", "successful_payment", "inline_query", "callback_query", "pre_checkout_query", "chosen_inline_result"}

\* the message_id that tells under which key a message came
KeyId(k) == CASE k = "message" -> 1 [] k = "edited_message" -> 2 [] k = "channel_post" -> 3 [] k = "edited_channel_post" -> 4 [] OTHER -> 5

\* the message m with message_id n
WithId(m, n) == [m EXCEPT !["message_id"] = n]

\* one payload for every top-level key: a private text message that is no
\* command, whose message_id tells under which key it came, and queries
\* whose text is that of the message
StdPayload == [k \in TopKeys |-> CASE k = "inline_query" -> InlineQuerySrc(T_foo) [] k = "callback_query" -> CallbackQuerySrc(T_foo, << Msg("private", <<>>, {}) >>) [] k = "pre_checkout_query" -> PreCheckoutQuerySrc(T_foo) [] k = "chosen_inline_result" -> ChosenInlineResultSrc(T_foo) [] OTHER -> WithId(Msg("private", << T_foo >>, {}), KeyId(k))]

\* updates with any (at most MaxKeys) top-level keys, the empty set included
ClassUpdates == {Update(id, K, StdPayload) : id \in UpdateIds, K \in {S \in SUBSET TopKeys : Cardinality(S) <= MaxKeys}}

\* the updates of a batch: a message, an unrecognized update
BatchUpdates == {Update(id, K, StdPayload) : id \in UpdateIds, K \in {{"message"}, {}}}

\* the update with the single category key k and the payload x
Update1(id, k, x) == Update(id, {k}, [j \in {k} |-> x])

\* the message types the subtype specification registers handlers for;
\* video_note is a type of the platform that MESSAGE_TYPES does not list
SubTypes == {"location", "photo", "video_note"}

\* messages with and without subtype keys and text
SubMessages == {Msg(ct, texts, subs) : ct \in {"private", "group"}, texts \in {<<>>, << T_cmd >>, << T_foo >>}, subs \in {{}, {"photo"}, {"location"}, {"location", "photo"}, {"photo", "successful_payment"}, {"video_note"}, {"photo", "video_note"}}}

SubUpdates == {Update1(1, "message", m) : m \in SubMessages}

\* messages of every chat type: no text, a text that is no command, a text
\* both patterns match, a text only "/e.*" matches
CmdMessages == {Msg(ct, texts, subs) : ct \in ChatTypes, texts \in {<<>>, << T_foo >>, << T_cmd >>, << T_e >>}, subs \in {{}, {"photo"}}}

CmdUpdates == {Update1(1, "message", m) : m \in CmdMessages}

\* test_message_updates: a private text message under every update type
KeyUpdates == {Update1(1, k, Msg("private", << t >>, {})) : k \in {"message", "edited_message", "channel_post", "edited_channel_post", "successful_payment"}, t \in {T_foo, T_cmd}}

\* test_handle: a message with one key of MESSAGE_TYPES, for every name of
\* the list; and messages with no such key, with two, with a text as well
HandleMessages == {Msg("private", <<>>, {mt}) : mt \in Range(MESSAGE_TYPES)} \cup {Msg("group", texts, subs) : texts \in {<<>>, << T_cmd >>}, subs \in {{}, {"game", "photo"}}}

HandleUpdates == {Update1(1, "message", m) : m \in HandleMessages}

\* callback queries: with the originating message of every chat type and
\* without one; a data no pattern matches, one both match, one "/e.*" matches
CallbackUpdates == {Update1(1, "callback_query", CallbackQuerySrc(data, msgs)) : data \in {T_foo, T_cmd, T_e}, msgs \in {<<>>} \cup {<< Msg(ct, <<>>, {}) >> : ct \in ChatTypes}}

\* for every category, updates that no pattern matches: text messages and
\* callback queries from a private chat and from a group, an inline query, a
\* chosen inline result, a pre-checkout query
DefaultUpdates == {Update1(1, "message", Msg(ct, << T_foo >>, {})) : ct \in {"private", "group"}} \cup {Update1(1, "callback_query", CallbackQuerySrc(T_foo, << Msg(ct, <<>>, {}) >>)) : ct \in {"private", "group"}} \cup {Update1(1, "inline_query", InlineQuerySrc(T_foo)), Update1(1, "chosen_inline_result", ChosenInlineResultSrc(T_foo)), Update1(1, "pre_checkout_query", PreCheckoutQuerySrc(T_foo))}

\* inline queries and chosen inline results: a query no pattern matches,
\* one both patterns match, one only "/e.*" matches
InlineUpdates == {Update1(1, "inline_query", InlineQuerySrc(q)) : q \in {T_foo, T_cmd, T_e}} \cup {Update1(1, "chosen_inline_result", ChosenInlineResultSrc(q)) : q \in {T_foo, T_cmd, T_e}}

\* private-chat text messages: a text no pattern matches, one both patterns
\* match, one only "/e.*" matches
RoundUpdates == {Update1(1, "message", Msg("private", << t >>, {})) : t \in {T_foo, T_cmd, T_e}}

\* ------------------------------------------------------------ actions

\* Python's None
None == "None"

\* no API call was made
NoRpc == [method |-> "", params |-> <<>>, posted |-> <<>>, statuses |-> <<>>, slept |-> 0, at |-> "idle", response |-> 0]

Init == /\ _offset = 0
        /\ default_in_groups \in BOOLEAN
        /\ _handlers = DictFromKeys(MESSAGE_TYPES, NoHandle)
        /\ _commands = <<>>
        /\ _callbacks = <<>>
        /\ _inlines = <<>>
        /\ _chosen_inline_result_callbacks = <<>>
        /\ _checkouts = <<>>
        /\ _default = Lambda
        /\ _default_callback = Lambda
        /\ _default_inline = Lambda
        /\ _default_chosen_inline_result_callback = Lambda
        /\ _default_checkout = Unset
        /\ op = [name |-> "idle", ok |-> TRUE, updates |-> <<>>, pre |-> 0]
        /\ calls = <<>>
        /\ scheduled = <<>>
        /\ raised = "none"
        /\ errors = 0
        /\ dispatched = 0
        /\ _running = FALSE
        /\ pc = "new"
        /\ poll = [offset |-> 0, prev |-> 0]
        /\ tasks = <<>>
        /\ rpc = NoRpc
        /\ _webhook_uuid = None
        /\ web = [header |-> None, status |-> 0]
        /\ _cleanups = <<>>
        /\ run = [pc |-> "new", how |-> "", trace |-> <<>>]
        /\ ext = [calls |-> <<>>, scheduled |-> <<>>, raised |-> "none", offset |-> 0]

\* no operation is under way: the last one has returned
Idle == op.name = "idle"

\* a registration is made between operations and dispatches nothing; the
\* record of it is the method, the key (pattern, message type or slot) and
\* the callable it was given
Registered(name, key, fn) == /\ Idle
                             /\ op' = [name |-> name, ok |-> TRUE, updates |-> << [key |-> key, fn |-> fn] >>, pre |-> _offset]
                             /\ UNCHANGED <<_offset, default_in_groups, calls, scheduled, raised, errors, dispatched, loopvars, auxvars>>

\* (mutant) the pair is put at the front of the list
commands_prepend(table, regexp, fn) == << << regexp, fn >> >> \o table

\* self._commands.append((regexp, fn))
commands_append(table, regexp, fn) == Append(table, << regexp, fn >>)

\* Bot.add_command
add_command(P, H) == \E p \in P, h \in H : /\ Len(_commands) < MaxTable
                                           /\ _commands' = commands_append(_commands, p, h)
                                           /\ Registered("add_command", p, h)
                                           /\ UNCHANGED <<_handlers, _callbacks, _inlines, _chosen_inline_result_callbacks, _checkouts, _default, _default_callback, _default_inline, _default_chosen_inline_result_callback, _default_checkout>>

\* Bot.default
default(H) == \E h \in H : /\ _default' = h
                           /\ Registered("default", "_default", h)
                           /\ UNCHANGED <<_handlers, _commands, _callbacks, _inlines, _chosen_inline_result_callbacks, _checkouts, _default_callback, _default_inline, _default_chosen_inline_result_callback, _default_checkout>>

\* Bot.inline, given a callable
inline(H) == \E h \in H : /\ _default_inline' = h
                          /\ Registered("inline", "_default_inline", h)
                          /\ UNCHANGED <<_handlers, _commands, _callbacks, _inlines, _chosen_inline_result_callbacks, _checkouts, _default, _default_callback, _default_chosen_inline_result_callback, _default_checkout>>

\* (mutant) callback, given a callable, sets the default of messages
callback_sets_default(H) == \E h \in H : (_default' = h /\ Registered("callback", "_default_callback", h) /\ UNCHANGED <<_handlers, _commands, _callbacks, _inlines, _chosen_inline_result_callbacks, _checkouts, _default_callback, _default_inline, _default_chosen_inline_result_callback, _default_checkout>>)

\* Bot.callback, given a callable
callback(H) == \E h \in H : /\ _default_callback' = h
                            /\ Registered("callback", "_default_callback", h)
                            /\ UNCHANGED <<_handlers, _commands, _callbacks, _inlines, _chosen_inline_result_callbacks, _checkouts, _default, _default_inline, _default_chosen_inline_result_callback, _default_checkout>>

\* Bot.chosen_inline_result_callback, given a callable
chosen_inline_result_callback(H) == \E h \in H : /\ _default_chosen_inline_result_callback' = h
                                                 /\ Registered("chosen_inline_result_callback", "_default_chosen_inline_result_callback", h)
                                                 /\ UNCHANGED <<_handlers, _commands, _callbacks, _inlines, _chosen_inline_result_callbacks, _checkouts, _default, _default_callback, _default_inline, _default_checkout>>

\* Bot.checkout, given a callable
checkout(H) == \E h \in H : /\ _default_checkout' = h
                            /\ Registered("checkout", "_default_checkout", h)
                            /\ UNCHANGED <<_handlers, _commands, _callbacks, _inlines, _chosen_inline_result_callbacks, _checkouts, _default, _default_callback, _default_inline, _default_chosen_inline_result_callback>>

\* Bot.add_inline
add_inline(P, H) == \E p \in P, h \in H : (Len(_inlines) < MaxTable /\ _inlines' = Append(_inlines, << p, h >>) /\ Registered("add_inline", p, h) /\ UNCHANGED <<_handlers, _commands, _callbacks, _chosen_inline_result_callbacks, _checkouts, _default, _default_callback, _default_inline, _default_chosen_inline_result_callback, _default_checkout>>)

\* Bot.add_chosen_inline_result_callback
add_chosen_inline_result_callback(P, H) == \E p \in P, h \in H : (Len(_chosen_inline_result_callbacks) < MaxTable /\ _chosen_inline_result_callbacks' = Append(_chosen_inline_result_callbacks, << p, h >>) /\ Registered("add_chosen_inline_result_callback", p, h) /\ UNCHANGED <<_handlers, _commands, _callbacks, _inlines, _checkouts, _default, _default_callback, _default_inline, _default_chosen_inline_result_callback, _default_checkout>>)

\* Bot.add_callback
add_callback(P, H) == \E p \in P, h \in H : (Len(_callbacks) < MaxTable /\ _callbacks' = Append(_callbacks, << p, h >>) /\ Registered("add_callback", p, h) /\ UNCHANGED <<_handlers, _commands, _inlines, _chosen_inline_result_callbacks, _checkouts, _default, _default_callback, _default_inline, _default_chosen_inline_result_callback, _default_checkout>>)

\* Bot.add_checkout
add_checkout(P, H) == \E p \in P, h \in H : /\ Len(_checkouts) < MaxTable
                                            /\ _checkouts' = Append(_checkouts, << p, h >>)
                                            /\ Registered("add_checkout", p, h)
                                            /\ UNCHANGED <<_handlers, _commands, _callbacks, _inlines, _chosen_inline_result_callbacks, _default, _default_callback, _default_inline, _default_chosen_inline_result_callback, _default_checkout>>

\* (mutant) the registered type is removed and put last
handlers_set_move_to_end(d, msg_type, fn) == Append(SelectSeq(d, LAMBDA e : e[1] # msg_type), << msg_type, fn >>)

\* (mutant) a type that has a registered handler keeps it
handlers_set_keep_first(d, msg_type, fn) == IF DictGet(d, msg_type) # NoHandle THEN d ELSE DictSet(d, msg_type, fn)

\* self._handlers[msg_type] = callback
handlers_set(d, msg_type, fn) == DictSet(d, msg_type, fn)

\* (mutant) a name that is not in MESSAGE_TYPES is refused
handle_validated(T, H) == \E mt \in T, h \in H : (_handlers' = (IF mt \in Range(MESSAGE_TYPES) THEN handlers_set(_handlers, mt, h) ELSE _handlers) /\ Registered("handle", mt, h) /\ UNCHANGED <<_commands, _callbacks, _inlines, _chosen_inline_result_callbacks, _checkouts, _default, _default_callback, _default_inline, _default_chosen_inline_result_callback, _default_checkout>>)

\* Bot.handle(msg_type)(callback)
handle(T, H) == \E mt \in T, h \in H : /\ _handlers' = handlers_set(_handlers, mt, h)
                                       /\ Registered("handle", mt, h)
                                       /\ UNCHANGED <<_commands, _callbacks, _inlines, _chosen_inline_result_callbacks, _checkouts, _default, _default_callback, _default_inline, _default_chosen_inline_result_callback, _default_checkout>>

\* (mutant) a dispatch whose handler raised puts the initial default message
\* handler back
Dispatched_drops_failed(name, ok, updates, r) == /\ op' = [name |-> name, ok |-> ok, updates |-> updates, pre |-> _offset]
                                                 /\ _offset' = r.offset
                                                 /\ calls' = r.calls
                                                 /\ scheduled' = r.scheduled
                                                 /\ raised' = r.raised
                                                 /\ errors' = r.errors
                                                 /\ dispatched' = r.done
                                                 /\ _default' = IF r.raised # "none" THEN Lambda ELSE _default
                                                 /\ UNCHANGED <<default_in_groups, _handlers, _commands, _callbacks, _inlines, _chosen_inline_result_callbacks, _checkouts, _default_callback, _default_inline, _default_chosen_inline_result_callback, _default_checkout, loopvars, auxvars>>

\* the state after a dispatch that started between operations and ended as r
Dispatched(name, ok, updates, r) == /\ op' = [name |-> name, ok |-> ok, updates |-> updates, pre |-> _offset]
                                    /\ _offset' = r.offset
                                    /\ calls' = r.calls
                                    /\ scheduled' = r.scheduled
                                    /\ raised' = r.raised
                                    /\ errors' = r.errors
                                    /\ dispatched' = r.done
                                    /\ UNCHANGED <<regs, loopvars, auxvars>>

\* one call of _process_update (as webhook_handle makes it), with an update
\* of U
ProcessUpdate(U) == Idle /\ \E u \in U, b \in Behaviours : \E r \in {_process_update(_offset, u, b)} : Dispatched("_process_update", TRUE, << u >>, r)

\* the sequences over the set S of length at most n
SeqsUpTo(S, n) == UNION {[1..k -> S] : k \in 0..n}

\* one call of _process_updates (as loop makes it), with a batch of at most n
\* updates of U, or with a response whose ok is false
ProcessUpdates(U, n) == \/ Idle /\ \E result \in SeqsUpTo(U, n) : \E bs \in [1..Len(result) -> Behaviours] : \E r \in {_process_updates(_offset, [ok |-> TRUE, result |-> result], bs)} : Dispatched("_process_updates", TRUE, result, r)
                        \/ Idle /\ \E r \in {_process_updates(_offset, [ok |-> FALSE, result |-> <<>>], <<>>)} : Dispatched("_process_updates", FALSE, <<>>, r)

\* RETRY_CODES
RETRY_CODES == {429, 500, 502, 503, 504}

\* the HTTP statuses a getUpdates call is answered with
Statuses == {200, 429, 502, 401, 409}

\* (mutant) every status but 200 raises
_api_call_no_retry(status) == IF status = 200 THEN "json" ELSE "BotApiError"

\* Bot._api_call by the status of the response: the decoded body, another
\* call after RETRY_TIMEOUT, or BotApiError
_api_call(status) == IF status = 200 THEN "json" ELSE IF status \in RETRY_CODES THEN "retry" ELSE "BotApiError"

\* (mutant) the offset parameter repeats the stored offset
poll_offset_same(off) == off

\* offset=self._offset + 1
poll_offset(off) == off + 1

\* self.api_call("getUpdates", offset=..., timeout=...) under the stored
\* offset off: the call that is now awaited, and the one before it
getUpdates(off) == [offset |-> poll_offset(off), prev |-> poll.offset]

\* the test of while self._running and, when it holds, the getUpdates call
\* of the next iteration; no await separates the two from what precedes
loop_turn(running, off) == IF running THEN [pc |-> "await", poll |-> getUpdates(off)] ELSE [pc |-> "done", poll |-> poll]

\* the coroutines asyncio.ensure_future turned into tasks
launched(cs) == [i \in 1..Len(cs) |-> [uid |-> cs[i].uid, h |-> cs[i].h]]

\* what the behaviour of a user handler is in a batch the loop receives
LoopBehaviours == {"none", "coro", "raise"}

\* Bot.loop up to its first await (awaited at once, or as the first step of
\* the task made for it): the flag is set and the first getUpdates call is
\* made
loop == /\ Idle
        /\ pc \in {"new", "scheduled"}
        /\ _running' = TRUE
        /\ pc' = "await"
        /\ poll' = getUpdates(_offset)
        /\ op' = [name |-> "loop", ok |-> TRUE, updates |-> <<>>, pre |-> _offset]
        /\ UNCHANGED <<_offset, regs, calls, scheduled, raised, errors, dispatched, tasks, auxvars>>

\* (mutant) stop() also cancels the handler tasks that have not run
stop_cancels_tasks == /\ Idle
                      /\ _running' = FALSE
                      /\ tasks' = <<>>
                      /\ op' = [name |-> "stop", ok |-> TRUE, updates |-> <<>>, pre |-> _offset]
                      /\ UNCHANGED <<_offset, regs, calls, scheduled, raised, errors, dispatched, pc, poll, auxvars>>

\* Bot.stop
stop == /\ Idle
        /\ _running' = FALSE
        /\ op' = [name |-> "stop", ok |-> TRUE, updates |-> <<>>, pre |-> _offset]
        /\ UNCHANGED <<_offset, regs, calls, scheduled, raised, errors, dispatched, pc, poll, tasks, auxvars>>

\* the rest of an iteration of Bot.loop once the awaited call has given
\* updates: self._process_updates(updates), whose scheduled coroutines become
\* tasks, then the loop condition; an exception of _process_updates leaves
\* loop
loop_iteration(ok, updates, r) == /\ op' = [name |-> "_process_updates", ok |-> ok, updates |-> updates, pre |-> _offset]
                                  /\ _offset' = r.offset
                                  /\ calls' = r.calls
                                  /\ scheduled' = r.scheduled
                                  /\ raised' = r.raised
                                  /\ errors' = r.errors
                                  /\ dispatched' = r.done
                                  /\ tasks' = tasks \o launched(r.scheduled)
                                  /\ pc' = IF r.raised # "none" THEN "failed" ELSE loop_turn(_running, r.offset).pc
                                  /\ poll' = IF r.raised # "none" THEN poll ELSE loop_turn(_running, r.offset).poll
                                  /\ UNCHANGED <<regs, _running, auxvars>>

\* the awaited getUpdates call is answered with status 200 and a body whose
\* ok is true, carrying at most n updates of U
loop_result(U, n) == Idle /\ pc = "await" /\ \E status \in Statuses : _api_call(status) = "json" /\ \E result \in SeqsUpTo(U, n) : \E bs \in [1..Len(result) -> LoopBehaviours] : \E r \in {_process_updates(_offset, [ok |-> TRUE, result |-> result], bs)} : Len(tasks) + Len(r.scheduled) <= MaxBatch /\ loop_iteration(TRUE, result, r)

\* the awaited getUpdates call is answered with status 200 and a body whose
\* ok is false
loop_not_ok == Idle /\ pc = "await" /\ \E status \in Statuses : _api_call(status) = "json" /\ \E r \in {_process_updates(_offset, [ok |-> FALSE, result |-> <<>>], <<>>)} : loop_iteration(FALSE, <<>>, r)

\* the awaited call is answered with a status of RETRY_CODES: _api_call
\* sleeps and makes the call again with the same parameters; loop keeps
\* awaiting
loop_retry == /\ Idle
              /\ pc = "await"
              /\ \E status \in Statuses : _api_call(status) = "retry"
              /\ op' = [name |-> "retry", ok |-> TRUE, updates |-> <<>>, pre |-> _offset]
              /\ UNCHANGED <<_offset, regs, calls, scheduled, raised, errors, dispatched, loopvars, auxvars>>

\* (mutant) loop answers BotApiError with another getUpdates call
loop_error_retried(exc) == /\ op' = [name |-> exc, ok |-> FALSE, updates |-> <<>>, pre |-> _offset]
                           /\ raised' = "none"
                           /\ errors' = 1
                           /\ pc' = "await"
                           /\ poll' = getUpdates(_offset)
                           /\ UNCHANGED <<_offset, regs, calls, scheduled, dispatched, _running, tasks, auxvars>>

\* the exception exc raised by the awaited call leaves loop, which has no
\* handler for it; _api_call logged the error before raising
loop_error(exc) == /\ op' = [name |-> exc, ok |-> FALSE, updates |-> <<>>, pre |-> _offset]
                   /\ raised' = exc
                   /\ errors' = 1
                   /\ pc' = "failed"
                   /\ UNCHANGED <<_offset, regs, calls, scheduled, dispatched, _running, poll, tasks, auxvars>>

\* the awaited call is answered with a status that is neither 200 nor of
\* RETRY_CODES
loop_api_error == Idle /\ pc = "await" /\ \E status \in Statuses : _api_call(status) = "BotApiError" /\ loop_error("BotApiError")

\* the outcomes of the body of a handler coroutine
TaskOutcomes == {"done", "failed"}

\* the event loop runs one of the pending tasks, whichever it is, to its end;
\* an exception of the body stays in the task
task_runs == /\ Idle
             /\ \E i \in 1..Len(tasks), o \in TaskOutcomes : /\ tasks' = SubSeq(tasks, 1, i - 1) \o SubSeq(tasks, i + 1, Len(tasks))
                                                            /\ op' = [name |-> "task", ok |-> o = "done", updates |-> << [uid |-> tasks[i].uid, h |-> tasks[i].h, place |-> i] >>, pre |-> _offset]
             /\ UNCHANGED <<_offset, regs, calls, scheduled, raised, errors, dispatched, _running, pc, poll, auxvars>>

\* RETRY_TIMEOUT
RETRY_TIMEOUT == 30

\* the methods and the parameters of the API calls followed
ApiMethods == {"getUpdates", "sendMessage", "setWebhook"}
ApiParams == {[offset |-> 1], [chat_id |-> 0, text |-> "foo"], [url |-> "u"]}

\* the request _api_call posts for the call in progress
Request == [method |-> rpc.method, params |-> rpc.params]

\* Bot.api_call(method, **params) up to the first await of _api_call: the
\* request is posted
api_call(M, P) == /\ rpc.at \in {"idle", "returned", "raised"}
                  /\ \E method \in M, params \in P : rpc' = [method |-> method, params |-> params, posted |-> << [method |-> method, params |-> params] >>, statuses |-> <<>>, slept |-> 0, at |-> "posted", response |-> 0]
                  /\ UNCHANGED <<botvars, webvars, runvars, ext>>

\* the posted request is answered: status 200 returns the decoded body, a
\* status of RETRY_CODES releases the response and starts the sleep, any
\* other status raises BotApiError(err_msg, response=response)
api_response == /\ rpc.at = "posted"
                /\ \E status \in Statuses : /\ (_api_call(status) = "retry") => (Len(rpc.statuses) < MaxRetries)
                                            /\ rpc' = [rpc EXCEPT !.statuses = Append(@, status), !.at = (CASE _api_call(status) = "json" -> "returned" [] _api_call(status) = "retry" -> "sleeping" [] OTHER -> "raised"), !.response = (IF _api_call(status) = "BotApiError" THEN status ELSE @)]
                /\ UNCHANGED <<botvars, webvars, runvars, ext>>

\* asyncio.sleep(RETRY_TIMEOUT) is over: return await
\* self.api_call(method, **params) posts the request again
api_retry == /\ rpc.at = "sleeping"
             /\ rpc' = [rpc EXCEPT !.slept = @ + RETRY_TIMEOUT, !.posted = Append(@, Request), !.at = "posted"]
             /\ UNCHANGED <<botvars, webvars, runvars, ext>>

\* the secret tokens a caller passes, the values uuid.uuid4() gives, and the
\* values of the X-Telegram-Bot-Api-Secret-Token header of a request (None:
\* the request has no such header)
CallerTokens == {"s1", "s2"}
Uuids == {"uuid1", "uuid2"}
Headers == {None, "s1", "uuid1", "other"}

\* the options of set_webhook: none, or a secret_token
WebhookOptions == {<<>>} \cup {[k \in {"secret_token"} |-> t] : t \in CallerTokens}

\* (mutant) a fresh UUID is stored even when the caller gave a token
stored_token_fresh(options, uuid) == uuid

\* self._webhook_uuid = options["secret_token"], after the option was set to
\* str(uuid.uuid4()) when it was missing
stored_token(options, uuid) == IF "secret_token" \notin DOMAIN options THEN uuid ELSE options["secret_token"]

\* Bot.set_webhook: the token is chosen and stored, and the setWebhook call
\* is made with it
set_webhook == /\ Idle
               /\ \E options \in WebhookOptions, uuid \in Uuids : /\ _webhook_uuid' = stored_token(options, uuid)
                                                                  /\ rpc' = [method |-> "setWebhook", params |-> [url |-> "u", secret_token |-> IF "secret_token" \notin DOMAIN options THEN uuid ELSE options["secret_token"]], posted |-> << [method |-> "setWebhook", params |-> [url |-> "u", secret_token |-> IF "secret_token" \notin DOMAIN options THEN uuid ELSE options["secret_token"]]] >>, statuses |-> <<>>, slept |-> 0, at |-> "posted", response |-> 0]
                                                                  /\ op' = [name |-> "set_webhook", ok |-> TRUE, updates |-> << options >>, pre |-> _offset]
               /\ UNCHANGED <<_offset, regs, calls, scheduled, raised, errors, dispatched, loopvars, web, runvars, ext>>

\* request.headers.get("X-Telegram-Bot-Api-Secret-Token") != self._webhook_uuid
refused(header, token) == header # token

\* Bot.webhook_handle for a request with the header value header and the
\* body update. A refused request never reaches the return of the 403
\* response: the argument of logger.warning adds the request to a str, which
\* raises TypeError. An accepted request is passed to _process_update and
\* answered with web.Response() (status 200) unless an exception left
\* _process_update. status 0: webhook_handle returned no response
webhook_handle(U) == /\ Idle
                     /\ \E header \in Headers, u \in U, b \in Behaviours : \E r \in {IF refused(header, _webhook_uuid) THEN [offset |-> _offset, calls |-> <<>>, scheduled |-> <<>>, raised |-> "TypeError", errors |-> 0, done |-> 0] ELSE _process_update(_offset, u, b)} : /\ op' = [name |-> "webhook_handle", ok |-> ~refused(header, _webhook_uuid), updates |-> << u >>, pre |-> _offset]
                                                                                                                                                                                                                                                                  /\ _offset' = r.offset
                                                                                                                                                                                                                                                                  /\ calls' = r.calls
                                                                                                                                                                                                                                                                  /\ scheduled' = r.scheduled
                                                                                                                                                                                                                                                                  /\ raised' = r.raised
                                                                                                                                                                                                                                                                  /\ errors' = r.errors
                                                                                                                                                                                                                                                                  /\ dispatched' = r.done
                                                                                                                                                                                                                                                                  /\ web' = [header |-> header, status |-> IF r.raised = "none" THEN 200 ELSE 0]
                     /\ UNCHANGED <<regs, loopvars, rpc, _webhook_uuid, runvars, ext>>

\* the cleanup actions a bot registers
CleanupActions == {"a1", "a2"}

\* Bot.on_cleanup, before run() has ended
on_cleanup(A) == /\ run.pc # "ended"
                 /\ Len(_cleanups) < MaxTable
                 /\ \E action \in A : _cleanups' = Append(_cleanups, action)
                 /\ UNCHANGED <<botvars, rpc, webvars, run, ext>>

\* (mutant) the cleanup runs in an else clause: not when an exception leaves
\* the try block
finally_block_else(how) == IF how = "stopped" THEN _cleanups \o << "session.close" >> ELSE <<>>

\* the finally block of run: every cleanup action is called, in list order,
\* then the session is closed (how is the way the try block was left)
finally_block(how) == [i \in 1..Len(_cleanups) |-> _cleanups[i]] \o << "session.close" >>

\* Bot.run(reload=False) up to run_until_complete: the task of loop() is made
run_start == /\ Idle
             /\ run.pc = "new"
             /\ pc = "new"
             /\ pc' = "scheduled"
             /\ run' = [run EXCEPT !.pc = "running"]
             /\ op' = [name |-> "run", ok |-> TRUE, updates |-> <<>>, pre |-> _offset]
             /\ UNCHANGED <<_offset, regs, calls, scheduled, raised, errors, dispatched, _running, poll, tasks, rpc, webvars, _cleanups, ext>>

\* run_until_complete(bot_loop) ends because loop() returned, or because an
\* exception left it, which no except clause of run takes: the finally
\* block runs
run_returns == /\ Idle
               /\ run.pc = "running"
               /\ pc \in {"done", "failed"}
               /\ run' = [pc |-> "ended", how |-> (IF pc = "done" THEN "stopped" ELSE "error"), trace |-> finally_block(IF pc = "done" THEN "stopped" ELSE "error")]
               /\ UNCHANGED <<botvars, rpc, webvars, _cleanups, ext>>

\* KeyboardInterrupt while run_until_complete(bot_loop) is running:
\* bot_loop.cancel(), self.stop(), then the finally block
run_interrupted == /\ Idle
                   /\ run.pc = "running"
                   /\ pc \in {"scheduled", "await"}
                   /\ pc' = "cancelled"
                   /\ _running' = FALSE
                   /\ run' = [pc |-> "ended", how |-> "interrupt", trace |-> finally_block("interrupt")]
                   /\ UNCHANGED <<_offset, regs, op, calls, scheduled, raised, errors, dispatched, poll, tasks, rpc, webvars, _cleanups, ext>>

\* ExtendedBot inherits Bot._process_message, but its __init__ assigns no
\* default_in_groups: the default test 'not chat.is_group() or
\* self.default_in_groups' reads the attribute exactly when the chat is a
\* group, and the read raises AttributeError
ext_process_message(message, b) == LET chat == from_message(message) st == subtype_index(message) IN IF st # 0 THEN Invoke("handle", _handlers[st][2], << Arg("chat", chat), Arg("media", message[_handlers[st][1]]) >>, b) ELSE IF "text" \notin DOMAIN message THEN NoCall ELSE LET c == match_index(_commands, message["text"]) IN IF c # 0 THEN Invoke("command", _commands[c][2], << Arg("chat", chat), Arg("match", re_search(_commands[c][1], message["text"])) >>, b) ELSE IF ~is_group(chat) THEN Invoke("default", _default, << Arg("chat", chat), Arg("message", message) >>, b) ELSE [calls |-> <<>>, ret |-> "none", exc |-> "AttributeError"]

\* ExtendedBot._process_callback_query: the chat is built from
\* query["message"] unconditionally (KeyError without it), and the default
\* callback runs when the chat is not a group
ext_process_callback_query(query, b) == IF "message" \notin DOMAIN query THEN [calls |-> <<>>, ret |-> "none", exc |-> "KeyError"] ELSE LET chat == Arg("chat", from_message(query["message"])) cq == CallbackQuery(query) i == match_index(_callbacks, cq.data) IN IF i # 0 THEN Invoke("callback", _callbacks[i][2], << chat, Arg("cq", cq), Arg("match", re_search(_callbacks[i][1], cq.data)) >>, b) ELSE IF ~is_group(from_message(query["message"])) THEN Invoke("default_callback", _default_callback, << chat, Arg("cq", cq) >>, b) ELSE NoCall

\* ExtendedBot._process_inline_query
ext_process_inline_query(query, b) == LET iq == InlineQuery(query) i == match_index(_inlines, query["query"]) IN IF i # 0 THEN Invoke("inline", _inlines[i][2], << Arg("iq", iq), Arg("match", re_search(_inlines[i][1], query["query"])) >>, b) ELSE Invoke("default_inline", _default_inline, << Arg("iq", iq) >>, b)

\* the routing of the inherited _process_update in an ExtendedBot: the
\* inherited routines for checkouts and chosen inline results read tables
\* its __init__ never made
ext_route(update, b) == LET c == category(update) IN IF c \in Range(MESSAGE_UPDATES) THEN ext_process_message(update[c], b) ELSE IF c = "inline_query" THEN ext_process_inline_query(update[c], b) ELSE IF c = "callback_query" THEN ext_process_callback_query(update[c], b) ELSE IF c \in {"pre_checkout_query", "chosen_inline_result"} THEN [calls |-> <<>>, ret |-> "none", exc |-> "AttributeError"] ELSE NoCall

\* the inherited Bot._process_update run by an ExtendedBot
ext_process_update(off, update, b) == LET at == next_offset(off, update) r == ext_route(update, b) e == ensure(r) IN [offset |-> at, calls |-> invoked(r.calls, at, update), scheduled |-> invoked(e.scheduled, at, update), raised |-> e.exc, errors |-> IF category(update) = "unknown" THEN 1 ELSE 0, done |-> 1]

\* the same update is given to a Bot and to an ExtendedBot that received the
\* same registrations (so have the same tables and slots) and stand at the
\* same offset; the handler behaves the same for both
BothProcessUpdate(U) == /\ Idle
                        /\ \E u \in U, b \in Behaviours : \E r \in {_process_update(_offset, u, b)}, x \in {ext_process_update(_offset, u, b)} : /\ op' = [name |-> "both", ok |-> TRUE, updates |-> << u >>, pre |-> _offset]
                                                                                                                                                   /\ _offset' = r.offset
                                                                                                                                                   /\ calls' = r.calls
                                                                                                                                                   /\ scheduled' = r.scheduled
                                                                                                                                                   /\ raised' = r.raised
                                                                                                                                                   /\ errors' = r.errors
                                                                                                                                                   /\ dispatched' = r.done
                                                                                                                                                   /\ ext' = [calls |-> x.calls, scheduled |-> x.scheduled, raised |-> x.raised, offset |-> x.offset]
                        /\ UNCHANGED <<regs, loopvars, rpc, webvars, runvars>>

\* the call has returned (or its exception has left it): the record of it is
\* dropped; Bot's fields stay as the call left them
Return == /\ ~Idle
          /\ op' = [name |-> "idle", ok |-> TRUE, updates |-> <<>>, pre |-> _offset]
          /\ calls' = <<>>
          /\ scheduled' = <<>>
          /\ raised' = "none"
          /\ errors' = 0
          /\ dispatched' = 0
          /\ UNCHANGED <<_offset, regs, loopvars, auxvars>>

\* ------------------------------------------------------------ specifications

\* Classification: every default slot may be registered, and one update with
\* any top-level keys is dispatched.
Next == \/ default({"h1"})
        \/ inline({"h1"})
        \/ callback({"h1"})
        \/ chosen_inline_result_callback({"h1"})
        \/ checkout({"h1"})
        \/ ProcessUpdate(ClassUpdates)
        \/ Return

Spec == Init /\ [][Next]_vars

\* Batches: the polling path and the webhook path over the same offset.
NextBatch == \/ default({"h1"})
             \/ ProcessUpdate(BatchUpdates)
             \/ ProcessUpdates(BatchUpdates, MaxBatch)
             \/ Return

SpecBatch == Init /\ [][NextBatch]_vars

\* Subtypes: handlers are registered for message types, one command may be
\* registered, and messages with subtype keys are dispatched.
NextSub == \/ handle(SubTypes, UserHandlers)
           \/ add_command({P_echo}, {"h1"})
           \/ ProcessUpdate(SubUpdates)
           \/ Return

SpecSub == Init /\ [][NextSub]_vars

\* Commands and the default: patterns and the default handler are registered,
\* and text messages are dispatched, alone or as a batch of one.
NextCmd == \/ add_command(Patterns, UserHandlers)
           \/ default(UserHandlers)
           \/ ProcessUpdate(CmdUpdates)
           \/ ProcessUpdates(KeyUpdates, 1)
           \/ Return

SpecCmd == Init /\ [][NextCmd]_vars

\* the message types that have a registered handler
HandledTypes == {_handlers[i][1] : i \in {j \in 1..Len(_handlers) : _handlers[j][2] # NoHandle}}

\* the message types a registration may be made for: photo, and one other
\* name of MESSAGE_TYPES at a time, whichever it is
HandleTypes == {mt \in Range(MESSAGE_TYPES) : mt = "photo" \/ HandledTypes \subseteq {"photo", mt}}

\* Message types: handlers are registered, and replaced, for any names of
\* MESSAGE_TYPES, and a message of every type is dispatched.
NextHandle == \/ handle(HandleTypes, UserHandlers)
              \/ ProcessUpdate(HandleUpdates)
              \/ Return

SpecHandle == Init /\ [][NextHandle]_vars

\* Callback queries: patterns and the default are registered, and callback
\* queries from every kind of chat are dispatched.
NextCallback == \/ add_callback(Patterns, UserHandlers)
                \/ callback(UserHandlers)
                \/ ProcessUpdate(CallbackUpdates)
                \/ Return

SpecCallback == Init /\ [][NextCallback]_vars

\* Defaults: the default of every category is registered and registered
\* again, a command is registered, and an update of every category that no
\* pattern matches is dispatched.
NextDefaults == \/ default(UserHandlers)
                \/ inline(UserHandlers)
                \/ callback(UserHandlers)
                \/ chosen_inline_result_callback(UserHandlers)
                \/ checkout(UserHandlers)
                \/ add_command({P_e}, {"h1"})
                \/ ProcessUpdate(DefaultUpdates)
                \/ Return

SpecDefaults == Init /\ [][NextDefaults]_vars

\* the two tables of the inline categories hold fewer than MaxTable patterns
\* together
InlineTablesOpen == Len(_inlines) + Len(_chosen_inline_result_callbacks) < MaxTable

\* Inline queries and chosen inline results: patterns and defaults of both
\* categories are registered, and updates of both are dispatched.
NextInline == \/ InlineTablesOpen /\ add_inline(Patterns, UserHandlers)
              \/ InlineTablesOpen /\ add_chosen_inline_result_callback(Patterns, UserHandlers)
              \/ inline(UserHandlers)
              \/ chosen_inline_result_callback(UserHandlers)
              \/ ProcessUpdate(InlineUpdates)
              \/ Return

SpecInline == Init /\ [][NextInline]_vars

\* Round trip of a registration: commands are registered, each pattern with
\* a handler of its own, and sequences of private-chat text messages are
\* dispatched.
NextRound == \/ add_command({P_echo}, {"h1"})
             \/ add_command({P_e}, {"h2"})
             \/ ProcessUpdates(RoundUpdates, MaxBatch)
             \/ Return

SpecRound == Init /\ [][NextRound]_vars

\* the five pattern tables hold fewer than MaxTable patterns together
TablesOpen == Len(_commands) + Len(_callbacks) + Len(_inlines) + Len(_chosen_inline_result_callbacks) + Len(_checkouts) < MaxTable

\* Pattern tables: patterns are registered in every category, in any order
\* and more than once, and an update moves the offset.
NextTables == \/ TablesOpen /\ add_command(Patterns, UserHandlers)
              \/ TablesOpen /\ add_callback(Patterns, {"h1"})
              \/ TablesOpen /\ add_inline(Patterns, {"h1"})
              \/ TablesOpen /\ add_chosen_inline_result_callback(Patterns, {"h1"})
              \/ TablesOpen /\ add_checkout(Patterns, {"h1"})
              \/ ProcessUpdate({Update(1, {}, StdPayload)})
              \/ Return

SpecTables == Init /\ [][NextTables]_vars

\* the polling driver: default handler registration, loop(), the answers of
\* getUpdates, stop(), and the runs of the scheduled tasks
NextLoop == \/ default({"h1"})
            \/ loop
            \/ loop_result(BatchUpdates, 2)
            \/ loop_not_ok
            \/ loop_retry
            \/ loop_api_error
            \/ stop
            \/ task_runs
            \/ Return

SpecLoop == Init /\ [][NextLoop]_vars

\* the awaited getUpdates request is answered, with whatever status: loop
\* goes on from the answer, or _api_call sleeps and posts it again
Answered_getUpdates == loop_result(BatchUpdates, 2) \/ loop_not_ok \/ loop_retry \/ loop_api_error

\* the awaited getUpdates call itself ends: it returns a body or raises
Completed_getUpdates == loop_result(BatchUpdates, 2) \/ loop_not_ok \/ loop_api_error

\* the polling driver under a fair event loop: a call that has been made
\* returns, a task that is ready gets its turn (the ready queue of asyncio is
\* first in, first out), and every request the bot posts is answered
SpecLoopFair == Init /\ [][NextLoop]_vars /\ WF_vars(Return) /\ SF_vars(loop) /\ SF_vars(Answered_getUpdates)

\* one update of each kind of dispatch: the updates that reach a default
\* slot, a photo, and an update with no known key
FrameUpdates == DefaultUpdates \cup {Update1(1, "message", Msg("private", <<>>, {"photo"})), Update(1, {}, StdPayload)}

\* registrations of every sort, loop() and stop(), and single calls of
\* _process_update made while the tables, the slots and the flag have the
\* values those left
NextFrame == \/ TablesOpen /\ add_command({P_e}, {"h1"})
             \/ TablesOpen /\ add_callback({P_e}, {"h1"})
             \/ handle({"photo"}, {"h1"})
             \/ default({"h1"})
             \/ checkout({"h1"})
             \/ loop
             \/ stop
             \/ ProcessUpdate(FrameUpdates)
             \/ Return

SpecFrame == Init /\ [][NextFrame]_vars

\* API calls, one after another, and the answers to their requests
NextApi == \/ api_call(ApiMethods, ApiParams)
           \/ api_response
           \/ api_retry

SpecApi == Init /\ [][NextApi]_vars

\* the updates of the comparison: texts in private and group chats, inline
\* queries, callback queries with an embedded message
ExtUpdates == {Update1(1, "message", Msg(ct, << t >>, {})) : ct \in {"private", "group"}, t \in {T_foo, T_e}} \cup {Update1(1, "callback_query", CallbackQuerySrc(t, << Msg(ct, <<>>, {}) >>)) : ct \in {"private", "group"}, t \in {T_foo, T_e}} \cup {Update1(1, "inline_query", InlineQuerySrc(t)) : t \in {T_foo, T_e}}

\* the registrations Bot and ExtendedBot share, and updates given to both
NextExt == \/ add_command({P_e}, UserHandlers)
           \/ add_callback({P_e}, {"h1"})
           \/ add_inline({P_e}, {"h1"})
           \/ default({"h2"})
           \/ BothProcessUpdate(ExtUpdates)
           \/ Return

SpecExt == Init /\ [][NextExt]_vars

\* Bot.run with registered cleanup actions: the polling loop under it, its
\* ways of ending, and stop()
NextRun == \/ on_cleanup(CleanupActions)
           \/ run_start
           \/ loop
           \/ loop_result(BatchUpdates, 1)
           \/ loop_not_ok
           \/ loop_retry
           \/ loop_api_error
           \/ stop
           \/ run_returns
           \/ run_interrupted
           \/ Return

SpecRun == Init /\ [][NextRun]_vars

\* run() under the event loop's scheduling: a task made by ensure_future is
\* given its first step once run_until_complete drives the loop, and a call
\* that was entered returns
SpecRunFair == Init /\ [][NextRun]_vars /\ WF_vars(loop) /\ WF_vars(Return)

\* the updates posted to the webhook
WebhookUpdates == {Update(id, K, StdPayload) : id \in UpdateIds, K \in {{"message"}, {}}}

\* the webhook side: a default handler, set_webhook calls and incoming
\* requests
NextWebhook == \/ default({"h1"})
               \/ set_webhook
               \/ webhook_handle(WebhookUpdates)
               \/ Return

SpecWebhook == Init /\ [][NextWebhook]_vars

\* ------------------------------------------------------------ claims

\* the update of the last call of _process_update
TheUpdate == op.updates[1]

UpdateCall == op.name = "_process_update"

BatchCall == op.name = "_process_updates" /\ op.ok

SetMax(S) == CHOOSE x \in S : \A y \in S : x >= y

\* the handler calls that are message routing / query routing
MessageVias == {"handle", "command", "default"}

\* the message update keys of the update, by the list of five
MessageKeysOf(u) == {"message", "edited_message", "channel_post", "edited_channel_post", "successful_payment"} \cap DOMAIN u

FirstMessageKeyOf(u) == IF "message" \in DOMAIN u THEN "message" ELSE IF "edited_message" \in DOMAIN u THEN "edited_message" ELSE IF "channel_post" \in DOMAIN u THEN "channel_post" ELSE IF "edited_channel_post" \in DOMAIN u THEN "edited_channel_post" ELSE "successful_payment"

\* no handler of the last operation returned a truthy value that is not
\* awaitable
NoPlainValue == \A i \in 1..Len(calls) : calls[i].result # "value"

\* C1: Bot._offset never decreases: over every step, whether a call of
\* _process_update, a batch given to _process_updates or anything else, the
\* value of _offset after the step is >= its value before.
C1_OffsetNeverDecreases == [][_offset' >= _offset]_vars

\* C1 witness: _process_update was called with an update_id below the offset
\* and the offset stayed where it was.
C1_Witness == UpdateCall /\ TheUpdate["update_id"] < op.pre /\ _offset = op.pre

\* C2 (as claimed): after _process_updates was given a batch with ok = true,
\* _offset is the maximum of its previous value and the update_id of every
\* update of the batch, whatever the handlers did (returned nothing, returned
\* a coroutine, or raised).
C2_BatchOffsetIsMaxSeen == (BatchCall /\ NoPlainValue) => _offset = SetMax({op.pre} \cup {op.updates[i]["update_id"] : i \in 1..Len(op.updates)})

\* C3 (as claimed): a handler's failure does not abort the batch: when the
\* handler resolved for an update of the batch raises, every later update of
\* the batch is still passed to _process_update.
C3_FailureDoesNotAbortBatch == (BatchCall /\ NoPlainValue) => dispatched = Len(op.updates)

\* the calls a query key resolves to
QueryViasOf(u) == IF "inline_query" \in DOMAIN u THEN {"inline", "default_inline"} ELSE IF "callback_query" \in DOMAIN u THEN {"callback", "default_callback"} ELSE IF "pre_checkout_query" \in DOMAIN u THEN {"checkout", "default_checkout"} ELSE IF "chosen_inline_result" \in DOMAIN u THEN {"chosen_inline_result", "default_chosen_inline_result"} ELSE {}

\* C4: a call of _process_update invokes at most one handler, chosen by key
\* priority: with a message update key present the update is routed only as
\* a message, the message being that of the first such key in list order;
\* otherwise only the first present of inline_query, callback_query,
\* pre_checkout_query, chosen_inline_result is routed.
C4_OneHandlerByKeyPriority == UpdateCall => /\ Len(calls) <= 1
                                            /\ \A i \in 1..Len(calls) : IF MessageKeysOf(TheUpdate) # {} THEN calls[i].via \in MessageVias /\ calls[i].args[2] = Arg("message", TheUpdate[FirstMessageKeyOf(TheUpdate)]) ELSE calls[i].via \in QueryViasOf(TheUpdate)

\* C4 witness: with handlers registered for both defaults, an update with a
\* message update key and a query key went to the default message handler
\* alone, with the message of that key.
C4_Witness == UpdateCall /\ DOMAIN TheUpdate \cap TopKeys = {"edited_message", "inline_query"} /\ _default = "h1" /\ _default_inline = "h1" /\ Len(calls) = 1 /\ calls[1].via = "default" /\ calls[1].args[2].val = TheUpdate["edited_message"]

\* C5: an update with an update_id and none of the known category keys is
\* dropped: no handler is invoked, nothing is scheduled, one error is logged,
\* nothing is raised, and _offset is max(_offset, update_id).
C5_UnknownUpdateDropped == (UpdateCall /\ DOMAIN TheUpdate \cap TopKeys = {}) => /\ calls = <<>>
                                                                                 /\ scheduled = <<>>
                                                                                 /\ errors = 1
                                                                                 /\ raised = "none"
                                                                                 /\ _offset = Max(op.pre, TheUpdate["update_id"])

\* C5 witness: an unrecognized update with an id above the offset was
\* dropped and moved the offset.
C5_Witness == UpdateCall /\ DOMAIN TheUpdate \cap TopKeys = {} /\ TheUpdate["update_id"] > op.pre /\ _offset = TheUpdate["update_id"] /\ errors = 1

\* C6 (as claimed): on a Bot on which no checkout default was registered, a
\* pre_checkout_query update whose invoice_payload matches no checkout
\* pattern invokes the checkout default with only the PreCheckoutQuery and
\* does not raise.
C6_CheckoutDefaultUsable == (UpdateCall /\ DOMAIN TheUpdate \cap TopKeys = {"pre_checkout_query"} /\ _default_checkout = Unset /\ \A i \in 1..Len(_checkouts) : ~re_search(_checkouts[i][1], TheUpdate["pre_checkout_query"]["invoice_payload"]).matched) => /\ raised = "none"
                                                                                                                                                                                                                                                             /\ Len(calls) = 1
                                                                                                                                                                                                                                                             /\ calls[1].via = "default_checkout"
                                                                                                                                                                                                                                                             /\ Len(calls[1].args) = 1

\* C8 (as claimed): the message-like update keys are exactly message,
\* edited_message, channel_post and edited_channel_post: an update with none
\* of these four keys is never routed through message routing.
C8_FourMessageKeys == (UpdateCall /\ DOMAIN TheUpdate \cap {"message", "edited_message", "channel_post", "edited_channel_post"} = {}) => \A i \in 1..Len(calls) : calls[i].via \notin MessageVias

\* C8 (amended): the message-like update keys are exactly message,
\* edited_message, channel_post, edited_channel_post and successful_payment,
\* checked in that order: an update with one of them is routed through
\* message routing with the payload of the first present, and an update with
\* none of the five is never routed through message routing.
C8_FiveMessageKeys == UpdateCall => IF MessageKeysOf(TheUpdate) = {} THEN \A i \in 1..Len(calls) : calls[i].via \notin MessageVias ELSE Len(calls) = 1 /\ calls[1].via \in MessageVias /\ calls[1].args[1].val.message = TheUpdate[FirstMessageKeyOf(TheUpdate)]

\* C8 witness: an update whose only category key is successful_payment went
\* through message routing.
C8_Witness == UpdateCall /\ DOMAIN TheUpdate \cap TopKeys = {"successful_payment"} /\ Len(calls) = 1 /\ calls[1].via = "default"

\* the keys of a message that are message types of MESSAGE_TYPES
SubtypeKeysOf(m) == DOMAIN m \cap {"location", "photo", "document", "audio", "voice", "sticker", "contact", "venue", "video", "game", "delete_chat_photo", "new_chat_photo", "new_chat_member", "left_chat_member", "new_chat_title", "group_chat_created", "successful_payment"}

\* the Chat a handler is given for the message m
ChatOf(m) == [id |-> m["chat"]["id"], type |-> m["chat"]["type"], message |-> m]

\* the message of an update with one message update key
MessageOf(u) == u[CHOOSE k \in MessageKeysOf(u) : TRUE]

\* a private-chat text message with no subtype key that no command matches
PlainPrivateText(m) == "text" \in DOMAIN m /\ m["chat"]["type"] = "private" /\ SubtypeKeysOf(m) = {} /\ \A i \in 1..Len(_commands) : ~re_search(_commands[i][1], m["text"]).matched

\* the last operation was a batch of the one update u, which carries a message
\* under exactly one key
BatchOfOneMessage == BatchCall /\ Len(op.updates) = 1 /\ Cardinality(DOMAIN TheUpdate \cap TopKeys) = 1 /\ MessageKeysOf(TheUpdate) # {}

\* C7: for every key of MESSAGE_UPDATES (message, edited_message,
\* channel_post, edited_channel_post, successful_payment), an ok batch of one
\* update that carries under that key a private-chat text message matching
\* no command invokes the current default handler exactly once with (chat,
\* that message).
C7_EveryMessageUpdateKeyReachesDefault == (BatchOfOneMessage /\ PlainPrivateText(MessageOf(TheUpdate))) => /\ Len(calls) = 1
                                                                                                           /\ calls[1].via = "default"
                                                                                                           /\ calls[1].h = _default
                                                                                                           /\ calls[1].args = << Arg("chat", ChatOf(MessageOf(TheUpdate))), Arg("message", MessageOf(TheUpdate)) >>

\* C7 witness: with a command registered that the text does not match, a
\* batch of one successful_payment update reached the registered default.
C7_Witness == BatchOfOneMessage /\ "successful_payment" \in DOMAIN TheUpdate /\ PlainPrivateText(MessageOf(TheUpdate)) /\ _commands # <<>> /\ _default = "h2" /\ Len(calls) = 1 /\ calls[1].h = "h2"

\* the last operation dispatched a message, under the key message
MessageCall == UpdateCall /\ "message" \in DOMAIN TheUpdate

\* C9: subtype precedence: for a message with a subtype key of MESSAGE_TYPES
\* and a text field, only that subtype's handler is invoked, with (chat,
\* message[subtype]); no command handler and no default handler is invoked,
\* even when the text matches a registered command.
C9_SubtypeBeforeText == (MessageCall /\ SubtypeKeysOf(TheUpdate["message"]) # {} /\ "text" \in DOMAIN TheUpdate["message"]) => /\ Len(calls) = 1
                                                                                                                               /\ calls[1].via = "handle"
                                                                                                                               /\ \E st \in SubtypeKeysOf(TheUpdate["message"]) : calls[1].h = DictGet(_handlers, st) /\ calls[1].args = << Arg("chat", ChatOf(TheUpdate["message"])), Arg("media", TheUpdate["message"][st]) >>

\* C9 witness: a photo message whose text matches a registered command went
\* to the registered photo handler.
C9_Witness == MessageCall /\ SubtypeKeysOf(TheUpdate["message"]) = {"photo"} /\ "text" \in DOMAIN TheUpdate["message"] /\ _commands # <<>> /\ re_search(_commands[1][1], TheUpdate["message"]["text"]).matched /\ Len(calls) = 1 /\ calls[1].h = "h2" /\ calls[1].via = "handle"

\* the place of a message type in the fixed order: location, photo,
\* document, audio, voice, sticker, contact, venue, video, game, ...
TypeRank(k) == CASE k = "location" -> 1 [] k = "photo" -> 2 [] k = "document" -> 3 [] k = "audio" -> 4 [] k = "voice" -> 5 [] k = "sticker" -> 6 [] k = "contact" -> 7 [] k = "venue" -> 8 [] k = "video" -> 9 [] k = "game" -> 10 [] k = "delete_chat_photo" -> 11 [] k = "new_chat_photo" -> 12 [] k = "new_chat_member" -> 14 [] k = "left_chat_member" -> 15 [] k = "new_chat_title" -> 16 [] k = "group_chat_created" -> 17 [] OTHER -> 18

\* the subtype key of m that comes first in the fixed order
FirstSubtypeOf(m) == CHOOSE st \in SubtypeKeysOf(m) : \A t \in SubtypeKeysOf(m) : TypeRank(st) <= TypeRank(t)

\* C10: for a message with two or more subtype keys exactly one subtype
\* handler is invoked, that of the key that comes first in the fixed
\* MESSAGE_TYPES order, whatever handle(...) registrations were made and in
\* whatever order.
C10_FirstSubtypeInFixedOrder == (MessageCall /\ Cardinality(SubtypeKeysOf(TheUpdate["message"])) >= 2) => /\ Len(calls) = 1
                                                                                                          /\ calls[1].via = "handle"
                                                                                                          /\ calls[1].h = DictGet(_handlers, FirstSubtypeOf(TheUpdate["message"]))
                                                                                                          /\ calls[1].args[2] = Arg("media", TheUpdate["message"][FirstSubtypeOf(TheUpdate["message"])])

\* C10 witness: handlers were registered for photo and for location, and a
\* message with both keys went to the location handler.
C10_Witness == MessageCall /\ {"location", "photo"} \subseteq DOMAIN TheUpdate["message"] /\ DictGet(_handlers, "photo") = "h1" /\ DictGet(_handlers, "location") = "h2" /\ Len(calls) = 1 /\ calls[1].h = "h2"

\* the record of the last registration
Registration == op.updates[1]

\* C11: for every name mt of MESSAGE_TYPES, handle(mt) puts the handler in
\* the slot of mt, replacing the one that was there; a message whose first
\* subtype key is mt invokes the handler of that slot exactly once with
\* (chat, message[mt]); and the slot of a type nothing was registered for
\* holds a no-op that runs no user code: it returns None, schedules nothing
\* and raises nothing.
C11_HandleInvokesLatestRegistered == /\ (op.name = "handle" => DictGet(_handlers, Registration.key) = Registration.fn)
                                     /\ (HandledTypes = {} => (\A i \in 1..Len(_handlers) : _handlers[i][2] = NoHandle))
                                     /\ ((MessageCall /\ SubtypeKeysOf(TheUpdate["message"]) # {}) => (Len(calls) = 1 /\ calls[1].via = "handle" /\ calls[1].h = DictGet(_handlers, FirstSubtypeOf(TheUpdate["message"])) /\ calls[1].args = << Arg("chat", ChatOf(TheUpdate["message"])), Arg("media", TheUpdate["message"][FirstSubtypeOf(TheUpdate["message"])]) >> /\ (calls[1].h = NoHandle => (calls[1].result = "none" /\ scheduled = <<>> /\ raised = "none"))))

\* C11 witness: the handler registered for the last name of MESSAGE_TYPES
\* was called with the value of that key, while another type has a handler.
C11_Witness == MessageCall /\ SubtypeKeysOf(TheUpdate["message"]) = {"successful_payment"} /\ DictGet(_handlers, "successful_payment") = "h2" /\ DictGet(_handlers, "photo") = "h1" /\ Len(calls) = 1 /\ calls[1].h = "h2" /\ calls[1].args[2].val = TheUpdate["message"]["successful_payment"]

\* the last operation dispatched, under the key message, a message with a
\* text and no subtype key
TextCall == MessageCall /\ "text" \in DOMAIN TheUpdate["message"] /\ SubtypeKeysOf(TheUpdate["message"]) = {}

\* the text of that message
TheText == TheUpdate["message"]["text"]

\* the command at place i of the table matches the text
CommandMatches(i) == re_search(_commands[i][1], TheText).matched

\* C12: first match wins for commands: for a text message with no subtype
\* key that some registered command matches (case-insensitive search), the
\* only handler invoked is that of the earliest-registered matching command,
\* with (chat, match); no later matching command and no default is invoked.
C12_FirstMatchingCommandWins == (TextCall /\ (\E i \in 1..Len(_commands) : CommandMatches(i))) => (Len(calls) = 1 /\ calls[1].via = "command" /\ (\E i \in 1..Len(_commands) : (CommandMatches(i) /\ (\A j \in 1..(i - 1) : ~CommandMatches(j)) /\ calls[1].h = _commands[i][2] /\ calls[1].args = << Arg("chat", ChatOf(TheUpdate["message"])), Arg("match", re_search(_commands[i][1], TheText)) >>)))

\* C12 witness: "/e (.+)" then "/e.*" are registered and the text "/E x",
\* which both match, went to the first handler with the group "x", in a
\* group chat.
C12_Witness == TextCall /\ TheText = T_cmd /\ _commands = << << P_echo, "h1" >>, << P_e, "h2" >> >> /\ TheUpdate["message"]["chat"]["type"] = "group" /\ Len(calls) = 1 /\ calls[1].h = "h1" /\ calls[1].args[2].val.groups = << << "x" >> >>

\* no registered command matches the text
NoCommandMatches == \A i \in 1..Len(_commands) : ~CommandMatches(i)

\* the chat type of the dispatched message
TheChatType == TheUpdate["message"]["chat"]["type"]

\* C13: default suppression in groups: for a text message with no subtype
\* key that no registered command matches, the default handler is invoked
\* (once, with (chat, message)) if and only if the chat type is neither
\* group nor supergroup or default_in_groups is true; when it is suppressed
\* nothing is invoked.
C13_DefaultSuppressedInGroups == (TextCall /\ NoCommandMatches) => IF TheChatType \notin {"group", "supergroup"} \/ default_in_groups THEN (Len(calls) = 1 /\ calls[1].via = "default" /\ calls[1].h = _default /\ calls[1].args = << Arg("chat", ChatOf(TheUpdate["message"])), Arg("message", TheUpdate["message"]) >>) ELSE (calls = <<>> /\ scheduled = <<>> /\ raised = "none")

\* C13 witness: with the flag off, a registered default and a registered
\* command the text does not match, a supergroup message invoked nothing.
C13_Witness == TextCall /\ NoCommandMatches /\ TheChatType = "supergroup" /\ ~default_in_groups /\ _default = "h1" /\ _commands # <<>> /\ calls = <<>>

\* C14: a message that has no subtype key and no text field invokes no
\* handler at all, neither a command handler nor the default handler, in
\* private chats as well as in groups, whatever default_in_groups is.
C14_NoTextNoSubtypeInvokesNothing == (MessageCall /\ "text" \notin DOMAIN TheUpdate["message"] /\ SubtypeKeysOf(TheUpdate["message"]) = {}) => (calls = <<>> /\ scheduled = <<>> /\ raised = "none" /\ errors = 0)

\* C14 witness: with a default and a command registered, a private message
\* without text and without subtype key invoked nothing.
C14_Witness == MessageCall /\ "text" \notin DOMAIN TheUpdate["message"] /\ SubtypeKeysOf(TheUpdate["message"]) = {} /\ TheChatType = "private" /\ _default = "h1" /\ _commands # <<>> /\ calls = <<>>

\* the last operation dispatched a callback query
CallbackCall == UpdateCall /\ "callback_query" \in DOMAIN TheUpdate

TheQuery == TheUpdate["callback_query"]

\* the callback pattern at place i of the table matches the data
CallbackMatches(i) == re_search(_callbacks[i][1], TheQuery["data"]).matched

NoCallbackMatches == \A i \in 1..Len(_callbacks) : ~CallbackMatches(i)

\* the chat a callback handler is given: that of the originating message,
\* None when the query has none
QueryChat == IF "message" \in DOMAIN TheQuery THEN Arg("chat", ChatOf(TheQuery["message"])) ELSE Arg("none", "None")

\* the CallbackQuery a callback handler is given
QueryContext == Arg("cq", [query_id |-> TheQuery["id"], data |-> TheQuery["data"], src |-> TheQuery])

\* the query came from a chat that is known and is no group
QueryFromNonGroup == "message" \in DOMAIN TheQuery /\ TheQuery["message"]["chat"]["type"] \notin {"group", "supergroup"}

DefaultSlot == [default |-> _default, inline |-> _default_inline, callback |-> _default_callback, chosen_inline_result_callback |-> _default_chosen_inline_result_callback, checkout |-> _default_checkout]

\* how the call of each default shows in the record of a dispatch
DefaultVia == [default |-> "default", inline |-> "default_inline", callback |-> "default_callback", chosen_inline_result_callback |-> "default_chosen_inline_result", checkout |-> "default_checkout"]

\* the pattern tables and the message type slots
Tables == << _commands, _callbacks, _inlines, _chosen_inline_result_callbacks, _checkouts, _handlers >>

\* no pattern of the table matches the subject
NoneMatches(table, subject) == \A i \in 1..Len(table) : ~re_search(table[i][1], subject).matched

\* the category of the dispatched update, named by the method that sets its
\* default
DefaultCategory == IF MessageKeysOf(TheUpdate) # {} THEN "default" ELSE IF "inline_query" \in DOMAIN TheUpdate THEN "inline" ELSE IF "callback_query" \in DOMAIN TheUpdate THEN "callback" ELSE IF "pre_checkout_query" \in DOMAIN TheUpdate THEN "checkout" ELSE "chosen_inline_result_callback"

\* the last operation dispatched an update of one category that no pattern
\* (and no subtype handler) of the category matches, after a default was
\* registered for the category
NoMatchDispatch == UpdateCall /\ Cardinality(DOMAIN TheUpdate \cap TopKeys) = 1 /\ DefaultSlot[DefaultCategory] \in UserHandlers /\ CASE DefaultCategory = "default" -> ("text" \in DOMAIN MessageOf(TheUpdate) /\ SubtypeKeysOf(MessageOf(TheUpdate)) = {} /\ NoneMatches(_commands, MessageOf(TheUpdate)["text"])) [] DefaultCategory = "inline" -> NoneMatches(_inlines, TheUpdate["inline_query"]["query"]) [] DefaultCategory = "callback" -> NoneMatches(_callbacks, TheUpdate["callback_query"]["data"]) [] DefaultCategory = "checkout" -> NoneMatches(_checkouts, TheUpdate["pre_checkout_query"]["invoice_payload"]) [] OTHER -> NoneMatches(_chosen_inline_result_callbacks, TheUpdate["chosen_inline_result"]["query"])

\* the group rule lets the default of the category run for this update
DefaultRuns == CASE DefaultCategory = "default" -> (MessageOf(TheUpdate)["chat"]["type"] \notin {"group", "supergroup"} \/ default_in_groups) [] DefaultCategory = "callback" -> (QueryFromNonGroup \/ default_in_groups) [] OTHER -> TRUE

\* a default slot changes only by a registration of that very slot, which
\* puts its callable there and leaves the tables alone
DefaultReplaced == \A n \in DOMAIN DefaultSlot : (((DefaultSlot'[n] # DefaultSlot[n]) => op'.name = n) /\ ((op'.name = n) => (DefaultSlot'[n] = op'.updates[1].fn /\ Tables' = Tables)))

\* C16 (as claimed): after one or more default registrations in a category,
\* a no-match dispatch in that category invokes the most recently
\* registered default exactly once.
C16_DefaultInvokedExactlyOnce == NoMatchDispatch => (Len(calls) = 1 /\ calls[1].h = DefaultSlot[DefaultCategory])

\* C16 (amended): a default slot is changed only by a registration in its
\* own category, which replaces its content and leaves every pattern table
\* and every other default unchanged; and a no-match dispatch in a category
\* invokes no handler but the most recently registered default of that
\* category, at most once: exactly once for inline queries, chosen inline
\* results and pre-checkout queries, and for messages and callback queries
\* exactly once unless the group rule suppresses the default, when nothing
\* is invoked.
C16_DefaultsReplace == [][DefaultReplaced /\ (NoMatchDispatch => IF DefaultRuns THEN (Len(calls) = 1 /\ calls[1].h = DefaultSlot[DefaultCategory] /\ calls[1].via = DefaultVia[DefaultCategory]) ELSE calls = <<>>)']_vars

\* C16 witness: the checkout default was registered and a pre-checkout
\* query that matches no checkout pattern invoked it, while the defaults of
\* messages and of callback queries hold another handler.
C16_Witness == NoMatchDispatch /\ DefaultCategory = "checkout" /\ _default_checkout = "h2" /\ _default = "h1" /\ _default_callback = "h1" /\ Len(calls) = 1 /\ calls[1].h = "h2" /\ calls[1].via = "default_checkout"

\* C17: for a callback_query update, the earliest-registered callback
\* pattern that matches the query's data (case-insensitive search) has its
\* handler invoked with (chat, cq, match), chat being built from the
\* embedded originating message when there is one and None otherwise; this
\* happens regardless of chat type and of default_in_groups, and no default
\* is invoked then.
C17_FirstMatchingCallbackWins == (CallbackCall /\ ~NoCallbackMatches) => (Len(calls) = 1 /\ calls[1].via = "callback" /\ (\E i \in 1..Len(_callbacks) : (CallbackMatches(i) /\ (\A j \in 1..(i - 1) : ~CallbackMatches(j)) /\ calls[1].h = _callbacks[i][2] /\ calls[1].args = << QueryChat, QueryContext, Arg("match", re_search(_callbacks[i][1], TheQuery["data"])) >>)))

\* C17 witness: with the flag off, a query without originating message
\* whose data both registered patterns match went to the first handler,
\* with None for the chat and the group "x" in the match.
C17_Witness == CallbackCall /\ "message" \notin DOMAIN TheQuery /\ ~default_in_groups /\ _callbacks = << << P_echo, "h1" >>, << P_e, "h2" >> >> /\ TheQuery["data"] = T_cmd /\ Len(calls) = 1 /\ calls[1].h = "h1" /\ calls[1].args[1] = Arg("none", "None") /\ calls[1].args[3].val.groups = << << "x" >> >>

\* the last operation dispatched an inline query or a chosen inline result
InlineCall == UpdateCall /\ MessageKeysOf(TheUpdate) = {} /\ ("inline_query" \in DOMAIN TheUpdate \/ DOMAIN TheUpdate \cap TopKeys = {"chosen_inline_result"})

\* it was an inline query
IsInlineQuery == "inline_query" \in DOMAIN TheUpdate

\* the payload, the pattern table, the default and the context object of its
\* category
InlineSrc == IF IsInlineQuery THEN TheUpdate["inline_query"] ELSE TheUpdate["chosen_inline_result"]

InlineTable == IF IsInlineQuery THEN _inlines ELSE _chosen_inline_result_callbacks

InlineDefault == IF IsInlineQuery THEN _default_inline ELSE _default_chosen_inline_result_callback

InlineContext == IF IsInlineQuery THEN Arg("iq", [sender |-> InlineSrc["from"], query_id |-> InlineSrc["id"], query |-> InlineSrc["query"]]) ELSE Arg("cir", [sender |-> InlineSrc["from"], result_id |-> InlineSrc["result_id"], query |-> InlineSrc["query"]])

\* the pattern at place i of the category's table matches the query text
InlineMatches(i) == re_search(InlineTable[i][1], InlineSrc["query"]).matched

InvokesDefault(u) == DOMAIN u \cap TopKeys \in {{"message"}, {"inline_query"}}

\* the last operation was a batch that dispatched the same update twice
SameUpdateTwice == BatchCall /\ Len(op.updates) = 2 /\ op.updates[1] = op.updates[2] /\ dispatched = 2 /\ InvokesDefault(TheUpdate)

\* C19: the dispatcher does no deduplication by update_id: an update whose
\* id the offset has already reached is dispatched like any other, leaving
\* _offset where it was; and dispatching the same update twice through
\* _process_update makes two handler invocations with equal arguments, and
\* leaves _offset at the value it had after the first.
C19_NoDeduplication == /\ ((UpdateCall /\ InvokesDefault(TheUpdate) /\ TheUpdate["update_id"] <= op.pre) => (Len(calls) = 1 /\ _offset = op.pre))
                       /\ (SameUpdateTwice => (Len(calls) = 2 /\ calls[1].h = calls[2].h /\ calls[1].via = calls[2].via /\ calls[1].args = calls[2].args /\ _offset = Max(op.pre, TheUpdate["update_id"])))

\* C19 witness: a batch held the same message update twice, with an id above
\* the offset; the registered default was invoked twice with the same
\* arguments and the offset is the id.
C19_Witness == SameUpdateTwice /\ "message" \in DOMAIN TheUpdate /\ TheUpdate["update_id"] > op.pre /\ _default = "h1" /\ Len(calls) = 2 /\ calls[1].args = calls[2].args /\ calls[2].args[2].val = TheUpdate["message"] /\ _offset = TheUpdate["update_id"]

\* the text of the k-th message of the batch
BatchText(k) == op.updates[k]["message"]["text"]

\* the command at place i of the table is the earliest-registered one that
\* matches the text
FirstCommandFor(i, text) == re_search(_commands[i][1], text).matched /\ (\A j \in 1..(i - 1) : ~re_search(_commands[j][1], text).matched)

\* the invocations of command handlers among the calls, by place
CommandCalls == {i \in 1..Len(calls) : calls[i].via = "command"}

\* C20: a registered command handler is called only for inputs its pattern
\* matches: after a sequence of private-chat text messages was dispatched,
\* the number of command calls of a handler equals the number of dispatched
\* messages whose earliest-registered matching command is registered with
\* that handler; and with "/e (.+)" registered alone, the text "foo"
\* followed by "/E x" gives exactly one call, carrying the match of the
\* second with the group "x".
C20_CalledOnlyForMatches == BatchCall => (/\ (\A h \in UserHandlers : Cardinality({i \in CommandCalls : calls[i].h = h}) = Cardinality({k \in 1..dispatched : (\E i \in 1..Len(_commands) : (FirstCommandFor(i, BatchText(k)) /\ _commands[i][2] = h))}))
                                          /\ ((dispatched = 2 /\ Len(_commands) = 1 /\ _commands[1][1] = P_echo /\ BatchText(1) = T_foo /\ BatchText(2) = T_cmd) => (Cardinality(CommandCalls) = 1 /\ calls[2].via = "command" /\ calls[2].h = _commands[1][2] /\ calls[2].args[2] = Arg("match", [matched |-> TRUE, start |-> 0, end |-> 4, groups |-> << << "x" >> >>]))))

\* C20 witness: "/e (.+)" is registered alone, and the batch "foo", "/E x"
\* called its handler once.
C20_Witness == BatchCall /\ dispatched = 2 /\ _commands = << << P_echo, "h1" >> >> /\ BatchText(1) = T_foo /\ BatchText(2) = T_cmd /\ Cardinality(CommandCalls) = 1 /\ calls[2].h = "h1"

\* the pattern table each registration method appends to
PatternTable == [add_command |-> _commands, add_callback |-> _callbacks, add_inline |-> _inlines, add_chosen_inline_result_callback |-> _chosen_inline_result_callbacks, add_checkout |-> _checkouts]

\* C21: registration appends and preserves order: a pattern table changes
\* only by a registration in its own category, which puts the registered
\* (pattern, handler) pair at its end, duplicates included, and changes no
\* other category's table, no default slot, not the subtype handlers and not
\* the offset; so each table is the sequence of the pairs registered for its
\* category, in call order.
C21_RegistrationAppends == [][\A n \in DOMAIN PatternTable : (((PatternTable'[n] # PatternTable[n]) => (Idle /\ op'.name = n)) /\ ((Idle /\ op'.name = n) => (PatternTable'[n] = Append(PatternTable[n], << op'.updates[1].key, op'.updates[1].fn >>) /\ DefaultSlot' = DefaultSlot /\ _handlers' = _handlers /\ _offset' = _offset)))]_vars

\* C21 witness: after an update moved the offset, two commands were
\* registered, and they stand in the table in the order of registration, the
\* last registered last.
C21_Witness == op.name = "add_command" /\ _commands = << << P_e, "h2" >>, << P_echo, "h1" >> >> /\ Registration = [key |-> P_echo, fn |-> "h1"] /\ _offset = 1

\* the names of MESSAGE_TYPES, in the order in which __init__ makes their
\* slots
FixedTypeNames == << "location", "photo", "document", "audio", "voice", "sticker", "contact", "venue", "video", "game", "delete_chat_photo", "new_chat_photo", "new_chat_member", "left_chat_member", "new_chat_title", "group_chat_created", "successful_payment" >>

\* the names message routing tests, in the order it tests them
TestedNames == [i \in 1..Len(_handlers) |-> _handlers[i][1]]

NextPollIssued == pc = "await" /\ BatchCall

\* the update_id of the k-th update of the batch
BatchId(k) == op.updates[k]["update_id"]

\* the invocations follow the batch: each belongs to the update of its turn,
\* and the turns never go back
CallsInBatchOrder == (\A i \in 1..Len(calls) : calls[i].turn \in 1..Len(op.updates) /\ calls[i].uid = BatchId(calls[i].turn)) /\ (\A i, j \in 1..Len(calls) : (i < j) => (calls[i].turn < calls[j].turn))

\* C23: the getUpdates call that is awaited was made with the offset
\* _offset + 1; when an iteration of loop has made the next call, the whole
\* batch it received has been passed to _process_update, in the order
\* received, and the offset of the new call is above the update_id of every
\* update of that batch and not below the offset of the call before, hence
\* above every update_id dispatched in the iterations before
C23_PollAfterWholeBatch == ((pc = "await") => (poll.offset = _offset + 1)) /\ (NextPollIssued => (dispatched = Len(op.updates) /\ CallsInBatchOrder /\ poll.offset >= poll.prev /\ (\A k \in 1..Len(op.updates) : poll.offset > BatchId(k))))

C23_Witness == NextPollIssued /\ Len(op.updates) = 2 /\ BatchId(1) = 2 /\ BatchId(2) = 1 /\ Len(calls) = 2 /\ calls[1].uid = 2 /\ calls[2].uid = 1 /\ poll.prev = 2 /\ poll.offset = 3

\* loop has received a response of getUpdates whose ok is false
FailedPoll == op.name = "_process_updates" /\ ~op.ok /\ pc # "new"

\* C24: a getUpdates response whose ok is false is logged as an error and
\* dropped: nothing is dispatched, no handler is invoked or scheduled,
\* nothing is raised, _offset is what it was, loop has not ended because of
\* it, and unless stop() was called the next getUpdates call is awaited with
\* the offset of the failed one
C24_FailedResponseDiscarded == FailedPoll => (errors = 1 /\ dispatched = 0 /\ calls = <<>> /\ scheduled = <<>> /\ raised = "none" /\ _offset = op.pre /\ pc = (IF _running THEN "await" ELSE "done") /\ (_running => (poll.offset = poll.prev /\ poll.offset = op.pre + 1)))

C24_Witness == FailedPoll /\ _running /\ pc = "await" /\ _offset = 2 /\ poll.offset = 3 /\ poll.prev = 3 /\ errors = 1

\* the getUpdates call loop awaited has raised BotApiError
ApiErrorRaised == op.name = "BotApiError"

\* C25: when the awaited getUpdates call raises BotApiError, the exception
\* leaves loop in that very step: nothing is dispatched, invoked or
\* scheduled, _offset, the pending tasks and the last getUpdates call made
\* are what they were; and once an exception has left loop, loop makes no
\* getUpdates call any more
C25_ApiErrorEndsLoop == [][((op'.name = "BotApiError") => (pc = "await" /\ pc' = "failed" /\ raised' = "BotApiError" /\ dispatched' = 0 /\ calls' = <<>> /\ scheduled' = <<>> /\ _offset' = _offset /\ poll' = poll /\ tasks' = tasks)) /\ ((pc = "failed") => (pc' = "failed" /\ poll' = poll))]_vars

C25_Witness == ApiErrorRaised /\ pc = "failed" /\ _offset = 2 /\ poll.offset = 3 /\ poll.prev = 1 /\ tasks # <<>>

\* loop() is not executing: it was not called yet, it returned, or an
\* exception left it
LoopNotExecuting == pc \in {"new", "scheduled", "cancelled", "done", "failed"}

\* C26: whenever loop() is not executing, _running is false, both after
\* loop() returned because of stop() and after an exception of the
\* getUpdates call left it
C26_NotExecutingMeansNotRunning == LoopNotExecuting => ~_running

\* loop has dispatched the batch of an iteration during which stop() was
\* called
StoppedDuringIteration == BatchCall /\ pc # "new" /\ ~_running

\* C27: when stop() was called while loop awaited getUpdates and the call
\* then gives an ok response, the whole batch is dispatched, in order, and
\* loop returns without another getUpdates call
C27_StopAtIterationBoundary == StoppedDuringIteration => (dispatched = Len(op.updates) /\ CallsInBatchOrder /\ pc = "done" /\ poll.offset = op.pre + 1)

\* the step is a dispatch made by loop
LoopDispatches == Idle /\ op'.name = "_process_updates"

\* every handler call of the dispatch that gave a coroutine was scheduled
CoroutinesScheduled == \A i \in 1..Len(calls') : (calls'[i].result = "coro") => (\E j \in 1..Len(scheduled') : scheduled'[j] = calls'[i])

\* the tasks pending after the dispatch are those pending before it, then
\* one for each coroutine it scheduled, none of them run
ScheduledArePending == Len(tasks') = Len(tasks) + Len(scheduled') /\ SubSeq(tasks', 1, Len(tasks)) = tasks /\ (\A j \in 1..Len(scheduled') : tasks'[Len(tasks) + j].uid = scheduled'[j].uid /\ tasks'[Len(tasks) + j].h = scheduled'[j].h)

\* C28: a coroutine a handler returned is scheduled as a task and is still
\* pending, its body not run, when the dispatch returns; stop() leaves every
\* pending task pending; a task stops being pending only by running, one at
\* a time, whichever of the pending ones it is
C28_HandlersLaunchedNotAwaited == [][(LoopDispatches => (CoroutinesScheduled /\ ScheduledArePending)) /\ ((Idle /\ op'.name = "stop") => (tasks' = tasks)) /\ ((tasks' # tasks /\ ~LoopDispatches) => (op'.name = "task" /\ Len(tasks') = Len(tasks) - 1 /\ op'.updates[1].place \in 1..Len(tasks) /\ op'.updates[1].uid = tasks[op'.updates[1].place].uid))]_vars

\* the task of update 2, scheduled after the task of update 1, has run while
\* that one is still pending, after stop() was called and loop returned
C28_Witness == op.name = "task" /\ op.updates[1].place = 2 /\ op.updates[1].uid = 2 /\ tasks # <<>> /\ tasks[1].uid = 1 /\ ~_running /\ pc = "done" /\ poll.prev > 0

\* the update_ids of the first n updates of the batch being dispatched
IdsUpTo(n) == {op'.updates[k]["update_id"] : k \in 1..n}

\* at the moment of the i-th handler call of the dispatch, _offset is not
\* below the offset the dispatch started from, nor below the update_id of the
\* update the call is made for, nor below that of any update before it
OffsetAheadOfCall(i) == calls'[i].at >= _offset /\ calls'[i].uid \in IdsUpTo(calls'[i].turn) /\ (\A id \in IdsUpTo(calls'[i].turn) : calls'[i].at >= id)

\* C29: whenever a handler is called for an update, _offset already is at
\* least the update_id of that update and of every update dispatched before
\* it; the offset a dispatch leaves is the largest of the old offset and
\* the update_ids of the updates it took, whatever their handlers did; and
\* the run of a handler task, whenever it comes, leaves _offset as it is
C29_OffsetAdvancesBeforeHandler == [][(LoopDispatches => ((\A i \in 1..Len(calls') : OffsetAheadOfCall(i)) /\ _offset' = SetMax({_offset} \cup IdsUpTo(dispatched')))) /\ ((op'.name = "task") => (_offset' = _offset))]_vars

C29_Witness == BatchCall /\ Len(op.updates) = 2 /\ BatchId(1) = 1 /\ BatchId(2) = 2 /\ Len(calls) = 2 /\ calls[1].result = "coro" /\ calls[1].at = 1 /\ calls[2].result = "raise" /\ calls[2].at = 2 /\ raised = "HandlerError" /\ _offset = 2 /\ op.pre = 0

\* the step is a call of _process_update
UpdateDispatched == Idle /\ op'.name = "_process_update"

\* C30: a call of _process_update, whatever the update and whatever its
\* handler does, leaves every pattern table, every default slot, the
\* subtype-handler mapping, default_in_groups, the running flag and the
\* position of loop as they were
C30_DispatchWritesOnlyOffset == [][UpdateDispatched => (PatternTable' = PatternTable /\ DefaultSlot' = DefaultSlot /\ _handlers' = _handlers /\ default_in_groups' = default_in_groups /\ _running' = _running /\ pc' = pc /\ poll' = poll)]_vars

C30_Witness == UpdateCall /\ raised = "HandlerError" /\ _default = "h1" /\ Len(calls) = 1 /\ calls[1].via = "default" /\ _commands # <<>> /\ _running /\ pc = "await" /\ _offset = 1 /\ op.pre = 0 /\ DictGet(_handlers, "photo") = "h1" /\ _default_checkout = "h1"

\* the statuses answered to the call in progress, and their number
Answers == rpc.statuses
Answered == Len(rpc.statuses)

\* the statuses _api_call sleeps on and retries
RetriedStatuses == {429, 500, 502, 503, 504}

\* C31: _api_call returns for the first response with status 200, raises
\* BotApiError carrying the response for the first response whose status is
\* neither 200 nor one of 429, 500, 502, 503, 504, and for every response
\* with one of those statuses raises nothing, sleeps RETRY_TIMEOUT and posts
\* the same method with the same parameters again; no request follows a
\* return or a raise
C31_RpcOutcomeByStatus == (\A i \in 1..Len(rpc.posted) : rpc.posted[i] = [method |-> rpc.method, params |-> rpc.params]) /\ (\A i \in 1..(Answered - 1) : Answers[i] \in RetriedStatuses) /\ ((rpc.at = "returned") => (Answered > 0 /\ Answers[Answered] = 200 /\ Len(rpc.posted) = Answered)) /\ ((rpc.at = "raised") => (Answered > 0 /\ Answers[Answered] \notin RetriedStatuses \cup {200} /\ rpc.response = Answers[Answered] /\ Len(rpc.posted) = Answered)) /\ ((rpc.at = "sleeping") => (Answered > 0 /\ Answers[Answered] \in RetriedStatuses /\ Len(rpc.posted) = Answered)) /\ ((rpc.at = "posted") => (Len(rpc.posted) = Answered + 1)) /\ ((rpc.at # "idle") => (rpc.slept = 30 * (Len(rpc.posted) - 1)))

C31_Witness == rpc.at = "returned" /\ rpc.method = "getUpdates" /\ Answers = << 429, 502, 200 >> /\ rpc.slept = 60 /\ Len(rpc.posted) = 3 /\ rpc.posted[3] = [method |-> "getUpdates", params |-> [offset |-> 1]]

\* the parameters of the most recent setWebhook call
SetWebhookCall == rpc.params

\* set_webhook was called at least once
WebhookSet == rpc.method = "setWebhook"

\* the options the set_webhook call that just returned was given
GivenOptions == op.updates[1]

\* C32: every setWebhook call carries a secret_token; _webhook_uuid equals
\* the secret_token of the most recent setWebhook call, before and after
\* incoming requests; when set_webhook returns, that token is the caller's
\* secret_token option if one was given and a generated UUID otherwise
C32_WebhookTokenIsTheOneSent == (WebhookSet => ("secret_token" \in DOMAIN SetWebhookCall /\ _webhook_uuid = SetWebhookCall["secret_token"] /\ rpc.posted = << [method |-> "setWebhook", params |-> SetWebhookCall] >>)) /\ ((op.name = "set_webhook") => (WebhookSet /\ (("secret_token" \in DOMAIN GivenOptions) => (_webhook_uuid = GivenOptions["secret_token"])) /\ (("secret_token" \notin DOMAIN GivenOptions) => (_webhook_uuid \in {"uuid1", "uuid2"}))))

C32_Witness == op.name = "set_webhook" /\ GivenOptions = [k \in {"secret_token"} |-> "s2"] /\ _webhook_uuid = "s2" /\ SetWebhookCall["secret_token"] = "s2" /\ web.header = "uuid1" /\ web.status = 200

\* webhook_handle has taken a request
WebhookRequest == op.name = "webhook_handle"

\* the header of the request differs from the bot's secret token
HeaderDiffers == web.header # _webhook_uuid

\* C33: webhook_handle answers a request whose header differs from the
\* bot's secret token with a 403 response, invoking no handler and leaving
\* _offset as it was, and dispatches a request whose header equals the token
\* through _process_update exactly once, answering it with a 200 response
C33_WebhookChecksToken == WebhookRequest => (IF HeaderDiffers THEN (web.status = 403 /\ dispatched = 0 /\ calls = <<>> /\ _offset = op.pre) ELSE (web.status = 200 /\ dispatched = 1))

\* C38: webhook_handle dispatches no update from a request that has no
\* X-Telegram-Bot-Api-Secret-Token header, whether or not set_webhook was
\* called before
C38_NoHeaderNeverDispatched == (WebhookRequest /\ web.header = None) => (dispatched = 0 /\ calls = <<>> /\ _offset = op.pre)

\* run() has ended
RunEnded == run.pc = "ended"

StopPending == pc = "await" /\ ~_running

\* loop() has ended: it returned, or an exception left it
LoopEnded == pc \in {"done", "failed"}

\* C35: once stop() was called while loop() is running, loop() eventually
\* ends, provided the event loop is fair and every request is answered
C35_StopEventuallyObserved == StopPending ~> LoopEnded

\* stop() has just been called on a bot whose loop() is a task that has not
\* run its first step
StopBeforeFirstStep == op.name = "stop" /\ pc = "scheduled"

\* loop() has made no getUpdates call
NothingPolled == poll.offset = 0 /\ pc # "await"

\* C36: once stop() was called on a bot whose loop() task has not yet run its
\* first step, loop() makes no getUpdates call, ever
C36_StopNeverLost == [](StopBeforeFirstStep => []NothingPolled)

\* C37: whenever the default callback handler is invoked, the query has an
\* embedded message and the first argument is the Chat built from it, never
\* None, whatever default_in_groups and the chat type are
C37_DefaultCallbackGetsChat == CallbackCall => (\A i \in 1..Len(calls) : (calls[i].via = "default_callback") => ("message" \in DOMAIN TheQuery /\ calls[i].args[1].tag = "chat" /\ calls[i].args[1] = QueryChat))

\* no handler called in the batch raised
NoHandlerRaised == \A i \in 1..Len(calls) : calls[i].result # "raise"

\* the calls whose handler returned a coroutine, in order
CoroutineCalls == SelectSeq(calls, LAMBDA c : c.result = "coro")

\* C39: whatever the handlers of a batch return, nothing is raised: a
\* handler that returns nothing schedules nothing, a returned coroutine is
\* scheduled exactly once, a returned value that is no awaitable counts as
\* finished, and every update of the batch is dispatched
C39_ReturnValueNeverRaises == (BatchCall /\ NoHandlerRaised) => (raised = "none" /\ dispatched = Len(op.updates) /\ scheduled = CoroutineCalls)

\* an update was given to a Bot whose default_in_groups is false and to an
\* ExtendedBot
Compared == op.name = "both" /\ ~default_in_groups

\* C40: for the same registrations and the same update, an ExtendedBot
\* invokes the handlers a Bot with default_in_groups = false invokes, with
\* the same arguments, schedules the same coroutines, advances the offset
\* alike, and raises nothing the Bot does not raise
C40_ExtendedBotDispatchesLikeBot == Compared => (ext.calls = calls /\ ext.scheduled = scheduled /\ ext.offset = _offset /\ ext.raised = raised)

====
